---- MODULE Spec2Model ----
(***************************************************************************)
(* vmshed scheduler (cmd/network_list.go, scheduler part): the decision    *)
(* loop, the resource state and the four actions AddNetwork, PullImage,    *)
(* ProvisionImage and PerformTest with their updatePre / exec / updatePost *)
(* phases.                                                                 *)
(***************************************************************************)
EXTENDS Integers, Sequences, FiniteSets, TLC

VARIABLES
    suiteRun,       \* testSuiteRun: the plan and the flags (never changes)
    networks,       \* suiteState.networks: name -> networkState
    baseImage,      \* suiteState.baseImage: base image -> imageStage
    imageStage,     \* suiteState.imageStage: vm.ID() -> imageStage
    runStage,       \* suiteState.runStage: testID -> runStage
    runResults,     \* suiteState.runResults: testID -> testResult
    freeIDs,        \* suiteState.freeIDs: the keys of the map
    freeNets,       \* suiteState.freeNets: the subnet allocator
    errors,         \* suiteState.errors
    activeActions,  \* scheduleLoop: activeActions
    ctxErr,         \* scheduleLoop: ctx.Err() != nil
    inflight,       \* the goroutines started by scheduleLoop
    removed,        \* tearDown: network name -> removals issued for it
    pc,             \* position of scheduleLoop / runScheduler
    call,           \* the last call a user of the subnet allocator alone made
    expansion,      \* createTestSuiteRun: its inputs and what it returned
    proc,           \* one exec of an action: its contexts, child and watcher
    rmImages        \* removeImages: the removals attempted and those that failed

vars == <<suiteRun, networks, baseImage, imageStage, runStage, runResults,
          freeIDs, freeNets, errors, activeActions, ctxErr, inflight, removed,
          pc, call, expansion, proc, rmImages>>

----------------------------------------------------------------------------
(* Bounds of the model *)

\* largest number of VM slots (--nvms) of a modelled configuration
MaxNrVMs == 2

\* number of subnets of one family the allocator can hand out before
\* cidr.NextSubnet reports that the range is exceeded
MaxSubnets == 6

\* largest value of --repeats of a modelled expansion
MaxRepeats == 2

----------------------------------------------------------------------------
(* Stages and constants *)

networkAdd   == "Add"
networkReady == "Ready"
networkBusy  == "Busy"
networkError == "Error"

imageNone      == "None"
imageProvision == "Provision"
imageReady     == "Ready"
imageError     == "Error"

runNew  == "New"
runExec == "Exec"
runDone == "Done"

OnFailureContinue  == "continue"
OnFailureTerminate == "terminate"
OnFailureKeepVms   == "keep-vms"

StatusSuccess       == "SUCCESS"
StatusCanceled      == "CANCELED"
StatusFailedTimeout == "FAILED(TO)"
StatusFailed        == "FAILED"
StatusError         == "ERROR"

\* the nil action / the nil run / the empty network name
Nil    == [kind |-> "nil"]
NoRun  == 0
NoName == <<>>

----------------------------------------------------------------------------
(* Helpers on the plan *)

\* vm.ID(): the name if set, else the base image
ID(v) == IF v.Name # "" THEN v.Name ELSE v.BaseImage

\* mutant: every access network is an IPv4-only network
accessNetwork_V4Only(ipv6) ==
    [Domain |-> "test", ForwardMode |-> "nat", DHCP |-> TRUE, IPv6 |-> FALSE]

\* the access network of an address family
accessNetwork(ipv6) ==
    [Domain |-> "test", ForwardMode |-> "nat", DHCP |-> TRUE, IPv6 |-> ipv6]

\* "vmshed-<id>-access" / "vmshed-<id>-extra"
generateNetworkName(id, access) ==
    <<"vmshed", id, IF access THEN "access" ELSE "extra">>

SeqRange(s) == {s[i] : i \in 1..Len(s)}

Min(S) == CHOOSE x \in S : \A y \in S : x <= y

VMs == suiteRun.vmSpec.VMs
Runs == suiteRun.testRuns

----------------------------------------------------------------------------
(* The stop condition *)

\* mutant: an image in stage Error does not stop the run
runStopping_IgnoresImages ==
    \/ suiteRun.onFailure # OnFailureContinue /\ errors # <<>>
    \/ \E n \in DOMAIN networks : networks[n].stage = networkError

runStopping ==
    \/ suiteRun.onFailure # OnFailureContinue /\ errors # <<>>
    \/ \E n \in DOMAIN networks : networks[n].stage = networkError
    \/ \E i \in 1..Len(VMs) :
          \/ baseImage[VMs[i].BaseImage] = imageError
          \/ imageStage[ID(VMs[i])] = imageError

----------------------------------------------------------------------------
(* chooseNextAction and its helpers *)

allImagesReady(r) ==
    \A k \in 1..Len(Runs[r].vms) :
        /\ baseImage[Runs[r].vms[k].BaseImage] = imageReady
        /\ imageStage[ID(Runs[r].vms[k])] = imageReady

\* mutant: the stage of the network is not looked at
findReadyNetwork_AnyStage(exclude, network, access) ==
    LET found == {i \in 0..(Cardinality(DOMAIN networks) - 1) :
                    LET networkName == generateNetworkName(i, access) IN
                    /\ networkName \in DOMAIN networks
                    /\ networks[networkName].stage \in {networkReady, networkBusy}
                    /\ networkName \notin exclude
                    /\ networks[networkName].network.ForwardMode = network.ForwardMode
                    /\ networks[networkName].network.DHCP = network.DHCP
                    /\ networks[networkName].network.Domain = network.Domain
                    /\ networks[networkName].network.IPv6 = network.IPv6
                    /\ networks[networkName].isAccess = access}
    IN  IF found = {} THEN NoName ELSE generateNetworkName(Min(found), access)

\* the first index i < len(networks) whose generated name is a Ready network
\* with the requested fields and kind that is not excluded
findReadyNetwork(exclude, network, access) ==
    LET found == {i \in 0..(Cardinality(DOMAIN networks) - 1) :
                    LET networkName == generateNetworkName(i, access) IN
                    /\ networkName \in DOMAIN networks
                    /\ networks[networkName].stage = networkReady
                    /\ networkName \notin exclude
                    /\ networks[networkName].network.ForwardMode = network.ForwardMode
                    /\ networks[networkName].network.DHCP = network.DHCP
                    /\ networks[networkName].network.Domain = network.Domain
                    /\ networks[networkName].network.IPv6 = network.IPv6
                    /\ networks[networkName].isAccess = access}
    IN  IF found = {} THEN NoName ELSE generateNetworkName(Min(found), access)

RECURSIVE findExtraNetworksFrom(_, _, _, _)
findExtraNetworksFrom(specs, k, used, acc) ==
    IF k > Len(specs) THEN acc
    ELSE LET rest(networkName) ==
                findExtraNetworksFrom(specs, k + 1, used \cup {networkName},
                    [networkNames |-> Append(acc.networkNames, networkName),
                     remainingNetworks |->
                        IF networkName = NoName
                        THEN Append(acc.remainingNetworks, specs[k])
                        ELSE acc.remainingNetworks])
         IN  \* networkName := findReadyNetwork(...), looked up once
             CHOOSE res \in {rest(networkName) :
                        networkName \in {findReadyNetwork(used, specs[k], FALSE)}} :
                    TRUE

\* the names of the ready networks and the network specs which are not ready
findExtraNetworks(r) ==
    findExtraNetworksFrom(Runs[r].networks, 1, {},
        [networkNames |-> <<>>, remainingNetworks |-> <<>>])

allNetworksReady(r) ==
    IF findReadyNetwork({}, accessNetwork(Runs[r].variant.IPv6), TRUE) = NoName
    THEN FALSE
    ELSE Len(findExtraNetworks(r).remainingNetworks) = 0

\* mutant: a run that can start now beats a larger run that cannot
runBetter_ReadyFirst(a, b) ==
    IF a = NoRun THEN TRUE
    ELSE IF allImagesReady(a) /\ allNetworksReady(a) THEN FALSE
    ELSE IF allImagesReady(b) /\ allNetworksReady(b) THEN TRUE
    ELSE Len(Runs[b].vms) > Len(Runs[a].vms)

\* mutant: of two runs with as many VMs the earlier one stays
runBetter_FirstWins(a, b) ==
    IF a = NoRun THEN TRUE
    ELSE Len(Runs[b].vms) > Len(Runs[a].vms)

\* whether run b is better than the (potentially nil) run a
runBetter(a, b) ==
    IF a = NoRun THEN TRUE
    ELSE IF Len(Runs[b].vms) < Len(Runs[a].vms) THEN FALSE
    ELSE IF Len(Runs[b].vms) > Len(Runs[a].vms) THEN TRUE
    ELSE IF allImagesReady(a) /\ allNetworksReady(a) THEN FALSE
    ELSE IF allImagesReady(b) /\ allNetworksReady(b) THEN TRUE
    ELSE FALSE

RECURSIVE SumExecVMs(_)
SumExecVMs(i) ==
    IF i > Len(Runs) THEN 0
    ELSE (IF runStage[Runs[i].testID] = runExec THEN Len(Runs[i].vms) ELSE 0)
         + SumExecVMs(i + 1)

countNonTestIDs == suiteRun.nrVMs - SumExecVMs(1)

RECURSIVE getIDsFrom(_, _, _)
getIDsFrom(i, n, ids) ==
    IF i >= suiteRun.nrVMs THEN ids
    ELSE LET id == suiteRun.startVM + i IN
         IF id \in freeIDs
         THEN IF Len(ids) + 1 = n THEN Append(ids, id)
              ELSE getIDsFrom(i + 1, n, Append(ids, id))
         ELSE getIDsFrom(i + 1, n, ids)

getIDs(n) == getIDsFrom(0, n, <<>>)

\* mutant: a network in stage Add does not hold back the next AddNetwork
makeAddNetworkAction_Unserialized(network, access) ==
    [kind |-> "AddNetwork",
     networkName |-> generateNetworkName(Cardinality(DOMAIN networks), access),
     network |-> network,
     access |-> access]

\* mutant: every network of a kind gets the index 0
makeAddNetworkAction_FirstIndex(network, access) ==
    IF \E n \in DOMAIN networks : networks[n].stage = networkAdd
    THEN Nil
    ELSE [kind |-> "AddNetwork",
          networkName |-> generateNetworkName(0, access),
          network |-> network,
          access |-> access]

makeAddNetworkAction(network, access) ==
    IF \E n \in DOMAIN networks : networks[n].stage = networkAdd
    THEN Nil
    ELSE [kind |-> "AddNetwork",
          networkName |-> generateNetworkName(Cardinality(DOMAIN networks), access),
          network |-> network,
          access |-> access]

\* mutant: the images of the run are not looked at
nextActionRun_NoImageCheck(r) ==
    IF Cardinality(freeIDs) < Len(Runs[r].vms) THEN Nil
    ELSE LET network == accessNetwork(Runs[r].variant.IPv6)
             networkName == findReadyNetwork({}, network, TRUE)
             extra == findExtraNetworks(r)
         IN  IF networkName = NoName THEN makeAddNetworkAction(network, TRUE)
             ELSE IF Len(extra.remainingNetworks) > 0
                  THEN makeAddNetworkAction(extra.remainingNetworks[1], FALSE)
             ELSE [kind |-> "PerformTest",
                   run |-> r,
                   ids |-> getIDs(Len(Runs[r].vms)),
                   networkNames |-> <<networkName>> \o extra.networkNames]

nextActionRun(r) ==
    IF Cardinality(freeIDs) < Len(Runs[r].vms) THEN Nil
    ELSE IF ~allImagesReady(r) THEN Nil
    ELSE LET network == accessNetwork(Runs[r].variant.IPv6)
             networkName == findReadyNetwork({}, network, TRUE)
             extra == findExtraNetworks(r)
         IN  IF networkName = NoName THEN makeAddNetworkAction(network, TRUE)
             ELSE IF Len(extra.remainingNetworks) > 0
                  THEN makeAddNetworkAction(extra.remainingNetworks[1], FALSE)
             ELSE [kind |-> "PerformTest",
                   run |-> r,
                   ids |-> getIDs(Len(Runs[r].vms)),
                   networkNames |-> <<networkName>> \o extra.networkNames]

\* mutant: a base image that is still being pulled is built from
nextActionProvision_NoBaseCheck(v) ==
    IF baseImage[VMs[v].BaseImage] = imageNone
    THEN [kind |-> "PullImage", Image |-> VMs[v].BaseImage]
    ELSE LET network == accessNetwork(FALSE)
             networkName == findReadyNetwork({}, network, TRUE)
         IN  IF networkName = NoName THEN makeAddNetworkAction(network, TRUE)
             ELSE [kind |-> "ProvisionImage",
                   v |-> v,
                   id |-> getIDs(1)[1],
                   networkName |-> networkName]

nextActionProvision(v) ==
    IF baseImage[VMs[v].BaseImage] = imageNone
    THEN [kind |-> "PullImage", Image |-> VMs[v].BaseImage]
    ELSE IF baseImage[VMs[v].BaseImage] # imageReady THEN Nil
    ELSE LET network == accessNetwork(FALSE)
             networkName == findReadyNetwork({}, network, TRUE)
         IN  IF networkName = NoName THEN makeAddNetworkAction(network, TRUE)
             ELSE [kind |-> "ProvisionImage",
                   v |-> v,
                   id |-> getIDs(1)[1],
                   networkName |-> networkName]

RECURSIVE bestRunFrom(_, _)
bestRunFrom(i, bestRun) ==
    IF i > Len(Runs) THEN bestRun
    ELSE IF runStage[Runs[i].testID] # runNew THEN bestRunFrom(i + 1, bestRun)
    ELSE IF countNonTestIDs < Len(Runs[i].vms) THEN bestRunFrom(i + 1, bestRun)
    ELSE IF runBetter(bestRun, i) THEN bestRunFrom(i + 1, i)
    ELSE bestRunFrom(i + 1, bestRun)

\* mutant: only the base image is looked at
firstUnprovisioned_BaseOnly ==
    LET cand == {i \in 1..Len(VMs) : baseImage[VMs[i].BaseImage] = imageNone}
    IN  IF cand = {} THEN 0 ELSE Min(cand)

\* the first VM descriptor with a base image or image in stage None
firstUnprovisioned ==
    LET cand == {i \in 1..Len(VMs) :
                    \/ baseImage[VMs[i].BaseImage] = imageNone
                    \/ imageStage[ID(VMs[i])] = imageNone}
    IN  IF cand = {} THEN 0 ELSE Min(cand)

chooseNextAction ==
    LET bestRun == bestRunFrom(1, NoRun)
        action  == IF bestRun # NoRun THEN nextActionRun(bestRun) ELSE Nil
    IN  IF action.kind # "nil" THEN action
        ELSE IF Cardinality(freeIDs) < 1 THEN Nil
        ELSE IF firstUnprovisioned = 0 THEN Nil
        ELSE nextActionProvision(firstUnprovisioned)

----------------------------------------------------------------------------
(* The subnet allocator (networkList) *)

EmptyMap == [x \in {} |-> FALSE]

\* a nil *net.IPNet
NoNet == <<>>

\* map assignment m[k] = v
MapSet(m, k, v) == [x \in DOMAIN m \cup {k} |-> IF x = k THEN v ELSE m[x]]

\* the family of a block, as ReserveNext recovers it from the map key
isIPv6(ipNet) == ipNet[1] = "v6"

\* NewNetworkList(firstV4Net, firstV6Net)
NewNetworkList ==
    [currentV4 |-> <<"v4", 0>>, currentV6 |-> <<"v6", 0>>, freeNets |-> EmptyMap]

\* mutant: a freed block is reused whatever its family
ReserveNext_AnyFamily(n, ipv6) ==
    LET reusable == {k \in DOMAIN n.freeNets : n.freeNets[k]}
        candidate == IF ipv6 THEN n.currentV6 ELSE n.currentV4
        next == <<candidate[1], candidate[2] + 1>>
    IN  IF reusable # {}
        THEN {[net |-> k, list |-> [n EXCEPT !.freeNets = MapSet(n.freeNets, k, FALSE)]] :
                k \in reusable}
        ELSE IF next[2] >= MaxSubnets THEN {}
        ELSE {[net |-> candidate,
               list |-> [currentV4 |-> IF ipv6 THEN n.currentV4 ELSE next,
                         currentV6 |-> IF ipv6 THEN next ELSE n.currentV6,
                         freeNets  |-> MapSet(n.freeNets, candidate, FALSE)]]}

\* mutant: the cursor is not advanced
ReserveNext_NoAdvance(n, ipv6) ==
    LET reusable == {k \in DOMAIN n.freeNets : n.freeNets[k] /\ isIPv6(k) = ipv6}
        candidate == IF ipv6 THEN n.currentV6 ELSE n.currentV4
        next == <<candidate[1], candidate[2] + 1>>
    IN  IF reusable # {}
        THEN {[net |-> k, list |-> [n EXCEPT !.freeNets = MapSet(n.freeNets, k, FALSE)]] :
                k \in reusable}
        ELSE IF next[2] >= MaxSubnets THEN {}
        ELSE {[net |-> candidate,
               list |-> [n EXCEPT !.freeNets = MapSet(n.freeNets, candidate, FALSE)]]}

\* ReserveNext(ipv6): the possible outcomes [net, list]; the iteration order
\* over the map of freed blocks is not determined.  No outcome when the next
\* cursor would exceed the range (the code panics).
ReserveNext(n, ipv6) ==
    LET reusable == {k \in DOMAIN n.freeNets : n.freeNets[k] /\ isIPv6(k) = ipv6}
        candidate == IF ipv6 THEN n.currentV6 ELSE n.currentV4
        next == <<candidate[1], candidate[2] + 1>>
    IN  IF reusable # {}
        THEN {[net |-> k, list |-> [n EXCEPT !.freeNets = MapSet(n.freeNets, k, FALSE)]] :
                k \in reusable}
        ELSE IF next[2] >= MaxSubnets THEN {}
        ELSE {[net |-> candidate,
               list |-> [currentV4 |-> IF ipv6 THEN n.currentV4 ELSE next,
                         currentV6 |-> IF ipv6 THEN next ELSE n.currentV6,
                         freeNets  |-> MapSet(n.freeNets, candidate, FALSE)]]}

\* Free(ipNet)
Free(n, ipNet) ==
    IF ipNet = NoNet THEN n
    ELSE [n EXCEPT !.freeNets = MapSet(n.freeNets, ipNet, TRUE)]

\* no call of the allocator on its own yet
NoCall == [op |-> "none", ipv6 |-> FALSE, net |-> NoNet]

\* no exec has been started
NoProc == [pc |-> "none"]

\* removeImages has not been called
NotRemoved == [called |-> FALSE]

\* createTestSuiteRun has not been given anything yet
NoExpansion == [stage |-> "none"]

----------------------------------------------------------------------------
(* Errors and results *)

Err(kind, id) == [kind |-> kind, id |-> id]

NoRes == [status |-> "", err |-> FALSE]

\* what performTest can return: the classification of execTest, with err
\* overwritten when a log file cannot be written, or an unclassified error
\* when the output directory cannot be created
TestOutcomes(cancelled) ==
    {[status |-> "", err |-> TRUE], [status |-> StatusError, err |-> TRUE]}
    \cup (IF cancelled
          THEN {[status |-> StatusCanceled, err |-> TRUE]}
          ELSE {[status |-> StatusFailedTimeout, err |-> TRUE],
                [status |-> StatusFailed, err |-> TRUE],
                [status |-> StatusSuccess, err |-> FALSE],
                [status |-> StatusSuccess, err |-> TRUE]})

\* what exec can leave in the action
Outcomes(a, cancelled) ==
    IF a.kind = "PerformTest" THEN TestOutcomes(cancelled)
    ELSE IF a.kind = "ProvisionImage" /\ cancelled THEN {[status |-> "", err |-> TRUE]}
    ELSE {[status |-> "", err |-> e] : e \in BOOLEAN}

----------------------------------------------------------------------------
(* updatePre *)

performTestUpdatePre(a) ==
    /\ runStage' = [runStage EXCEPT ![Runs[a.run].testID] = runExec]
    /\ freeIDs' = freeIDs \ SeqRange(a.ids)
    /\ networks' = [n \in DOMAIN networks |->
                      IF n \in SeqRange(a.networkNames)
                      THEN [networks[n] EXCEPT !.stage = networkBusy]
                      ELSE networks[n]]
    /\ inflight' = inflight \cup {[act |-> a, phase |-> "exec", res |-> NoRes]}
    /\ UNCHANGED <<baseImage, imageStage, freeNets>>

pullImageUpdatePre(a) ==
    /\ baseImage' = [baseImage EXCEPT ![a.Image] = imageProvision]
    /\ inflight' = inflight \cup {[act |-> a, phase |-> "exec", res |-> NoRes]}
    /\ UNCHANGED <<networks, imageStage, runStage, freeIDs, freeNets>>

\* mutant: the ID of the build stays in the free set
provisionImageUpdatePre_KeepsID(a) ==
    /\ imageStage' = [imageStage EXCEPT ![ID(VMs[a.v])] = imageProvision]
    /\ freeIDs' = freeIDs
    /\ networks' = [networks EXCEPT ![a.networkName].stage = networkBusy]
    /\ inflight' = inflight \cup {[act |-> a, phase |-> "exec", res |-> NoRes]}
    /\ UNCHANGED <<baseImage, runStage, freeNets>>

\* mutant: the image is not marked as being provisioned
provisionImageUpdatePre_KeepsStage(a) ==
    /\ imageStage' = imageStage
    /\ freeIDs' = freeIDs \ {a.id}
    /\ networks' = [networks EXCEPT ![a.networkName].stage = networkBusy]
    /\ inflight' = inflight \cup {[act |-> a, phase |-> "exec", res |-> NoRes]}
    /\ UNCHANGED <<baseImage, runStage, freeNets>>

provisionImageUpdatePre(a) ==
    /\ imageStage' = [imageStage EXCEPT ![ID(VMs[a.v])] = imageProvision]
    /\ freeIDs' = freeIDs \ {a.id}
    /\ networks' = [networks EXCEPT ![a.networkName].stage = networkBusy]
    /\ inflight' = inflight \cup {[act |-> a, phase |-> "exec", res |-> NoRes]}
    /\ UNCHANGED <<baseImage, runStage, freeNets>>

addNetworkUpdatePre(a) ==
    /\ networks' = MapSet(networks, a.networkName,
                      [network |-> a.network, isAccess |-> a.access,
                       stage |-> networkAdd])
    /\ \E r4 \in (IF a.network.DHCP THEN ReserveNext(freeNets, FALSE)
                  ELSE {[net |-> NoNet, list |-> freeNets]}) :
       \E r6 \in (IF a.network.DHCP /\ a.network.IPv6 THEN ReserveNext(r4.list, TRUE)
                  ELSE {[net |-> NoNet, list |-> r4.list]}) :
          /\ freeNets' = r6.list
          /\ inflight' = inflight \cup
                {[act |-> [kind |-> a.kind, networkName |-> a.networkName,
                           network |-> a.network, access |-> a.access,
                           ipv4Net |-> r4.net, ipv6Net |-> r6.net],
                  phase |-> "exec", res |-> NoRes]}
    /\ UNCHANGED <<baseImage, imageStage, runStage, freeIDs>>

updatePre(a) ==
    CASE a.kind = "PerformTest"    -> performTestUpdatePre(a)
      [] a.kind = "PullImage"      -> pullImageUpdatePre(a)
      [] a.kind = "ProvisionImage" -> provisionImageUpdatePre(a)
      [] a.kind = "AddNetwork"     -> addNetworkUpdatePre(a)

----------------------------------------------------------------------------
(* updatePost *)

\* mutant: only the access network is returned to Ready
performTestUpdatePost_AccessOnly(a, res) ==
    /\ runStage' = [runStage EXCEPT ![Runs[a.run].testID] = runDone]
    /\ runResults' = MapSet(runResults, Runs[a.run].testID, res)
    /\ errors' = IF res.err THEN Append(errors, Err("test", Runs[a.run].testID))
                 ELSE errors
    /\ networks' = [networks EXCEPT ![a.networkNames[1]].stage = networkReady]
    /\ freeIDs' = freeIDs \cup SeqRange(a.ids)
    /\ UNCHANGED <<baseImage, imageStage>>

\* mutant: every network of the state is returned to Ready
performTestUpdatePost_AllReady(a, res) ==
    /\ runStage' = [runStage EXCEPT ![Runs[a.run].testID] = runDone]
    /\ runResults' = MapSet(runResults, Runs[a.run].testID, res)
    /\ errors' = IF res.err THEN Append(errors, Err("test", Runs[a.run].testID))
                 ELSE errors
    /\ networks' = [n \in DOMAIN networks |->
                      [networks[n] EXCEPT !.stage = networkReady]]
    /\ freeIDs' = freeIDs \cup SeqRange(a.ids)
    /\ UNCHANGED <<baseImage, imageStage>>

performTestUpdatePost(a, res) ==
    /\ runStage' = [runStage EXCEPT ![Runs[a.run].testID] = runDone]
    /\ runResults' = MapSet(runResults, Runs[a.run].testID, res)
    /\ errors' = IF res.err THEN Append(errors, Err("test", Runs[a.run].testID))
                 ELSE errors
    /\ networks' = [n \in DOMAIN networks |->
                      IF n \in SeqRange(a.networkNames)
                      THEN [networks[n] EXCEPT !.stage = networkReady]
                      ELSE networks[n]]
    /\ freeIDs' = freeIDs \cup SeqRange(a.ids)
    /\ UNCHANGED <<baseImage, imageStage>>

\* mutant: a pull that failed leaves the base image to be pulled again
pullImageUpdatePost_Retry(a, res) ==
    /\ baseImage' = [baseImage EXCEPT ![a.Image] =
                        IF res.err THEN imageNone ELSE imageReady]
    /\ errors' = IF res.err THEN Append(errors, Err("pull image", a.Image))
                 ELSE errors
    /\ UNCHANGED <<networks, imageStage, runStage, runResults, freeIDs>>

pullImageUpdatePost(a, res) ==
    /\ baseImage' = [baseImage EXCEPT ![a.Image] =
                        IF res.err THEN imageError ELSE imageReady]
    /\ errors' = IF res.err THEN Append(errors, Err("pull image", a.Image))
                 ELSE errors
    /\ UNCHANGED <<networks, imageStage, runStage, runResults, freeIDs>>

provisionImageUpdatePost(a, res) ==
    /\ networks' = [networks EXCEPT ![a.networkName].stage = networkReady]
    /\ freeIDs' = freeIDs \cup {a.id}
    /\ imageStage' = [imageStage EXCEPT ![ID(VMs[a.v])] =
                        IF res.err THEN imageError ELSE imageReady]
    /\ errors' = IF res.err THEN Append(errors, Err("provision", ID(VMs[a.v])))
                 ELSE errors
    /\ UNCHANGED <<baseImage, runStage, runResults>>

addNetworkUpdatePost(a, res) ==
    /\ errors' = IF res.err THEN Append(errors, Err("add network", a.networkName))
                 ELSE errors
    /\ networks' = [networks EXCEPT ![a.networkName].stage =
                        IF res.err THEN networkError ELSE networkReady]
    /\ UNCHANGED <<baseImage, imageStage, runStage, runResults, freeIDs>>

updatePost(a, res) ==
    CASE a.kind = "PerformTest"    -> performTestUpdatePost(a, res)
      [] a.kind = "PullImage"      -> pullImageUpdatePost(a, res)
      [] a.kind = "ProvisionImage" -> provisionImageUpdatePost(a, res)
      [] a.kind = "AddNetwork"     -> addNetworkUpdatePost(a, res)

----------------------------------------------------------------------------
(* The modelled plans *)

vm0 == [Name |-> "", BaseImage |-> "b0"]
vm1 == [Name |-> "", BaseImage |-> "b1"]
vmA == [Name |-> "a", BaseImage |-> "b0"]
vmB == [Name |-> "b", BaseImage |-> "b0"]

variantDefault == [Name |-> "default", IPv6 |-> FALSE]
variantIPv6    == [Name |-> "ipv6", IPv6 |-> TRUE]

\* extra network specifications of a test
netPlain == [Domain |-> "", ForwardMode |-> "", DHCP |-> FALSE, IPv6 |-> FALSE]
netNat6  == [Domain |-> "test", ForwardMode |-> "nat", DHCP |-> TRUE, IPv6 |-> TRUE]

Run(id, vms, nets, variant) ==
    [testID |-> id, vms |-> vms, networks |-> nets, variant |-> variant]

\* the plan of TestChooseNextAction
PlanLarger ==
    [VMs  |-> <<vm0, vm1>>,
     runs |-> <<Run("t1VM", <<vm0>>, <<>>, variantDefault),
                Run("t2VM", <<vm0, vm1>>, <<>>, variantDefault)>>]

\* two named VM descriptors on one base image
PlanNamed ==
    [VMs  |-> <<vmA, vmB>>,
     runs |-> <<Run("a-1", <<vmA>>, <<>>, variantDefault),
                Run("b-1", <<vmB>>, <<>>, variantIPv6)>>]

\* runs with extra networks, on both address families
PlanNets ==
    [VMs  |-> <<vm0>>,
     runs |-> <<Run("n-1", <<vm0>>, <<netPlain, netPlain>>, variantDefault),
                Run("n-2", <<vm0>>, <<netNat6>>, variantIPv6)>>]

\* a test that lists 0 among its VM counts, next to a run with one VM
PlanZero ==
    [VMs  |-> <<vm0>>,
     runs |-> <<Run("z-0", <<>>, <<>>, variantDefault),
                Run("z-1", <<vm0>>, <<>>, variantDefault)>>]

Plans == {PlanLarger, PlanNamed, PlanNets, PlanZero}

\* runs of one VM each, the run listed first on the VM listed last
PlanTie ==
    [VMs  |-> <<vm0, vm1>>,
     runs |-> <<Run("p-1", <<vm1>>, <<>>, variantDefault),
                Run("p-2", <<vm0>>, <<>>, variantDefault)>>]

\* first VM slot (--startvm)
StartVM == 5

SuitesOf(plans) ==
    {[vmSpec |-> [ProvisionFile |-> prov, VMs |-> p.VMs],
      testRuns |-> p.runs,
      startVM |-> StartVM,
      nrVMs |-> n,
      onFailure |-> pol,
      pullImageTemplate |-> pull] :
        p \in plans, n \in 1..MaxNrVMs,
        pol \in {OnFailureContinue, OnFailureTerminate, OnFailureKeepVms},
        prov \in BOOLEAN, pull \in BOOLEAN}

Suites == SuitesOf(Plans)

----------------------------------------------------------------------------
(* initializeState *)

InitOf(suites) ==
    /\ suiteRun \in suites
    /\ networks = EmptyMap
    /\ baseImage = [b \in {VMs[i].BaseImage : i \in 1..Len(VMs)} |->
                      IF suiteRun.pullImageTemplate THEN imageNone ELSE imageReady]
    /\ imageStage = [v \in {ID(VMs[i]) : i \in 1..Len(VMs)} |->
                      IF suiteRun.vmSpec.ProvisionFile THEN imageNone ELSE imageReady]
    /\ runStage = [t \in {Runs[i].testID : i \in 1..Len(Runs)} |-> runNew]
    /\ runResults = EmptyMap
    /\ freeIDs = {suiteRun.startVM + i : i \in 0..(suiteRun.nrVMs - 1)}
    /\ freeNets = NewNetworkList
    /\ errors = <<>>
    /\ activeActions = 0
    /\ ctxErr = FALSE
    /\ inflight = {}
    /\ removed = EmptyMap
    /\ pc = "dispatch"
    /\ call = NoCall
    /\ expansion = NoExpansion
    /\ proc = NoProc
    /\ rmImages = NotRemoved

Init == InitOf(Suites)

----------------------------------------------------------------------------
(* scheduleLoop *)

\* inner loop: choose the next action, apply its updatePre and start it
Dispatch ==
    /\ pc = "dispatch"
    /\ ~runStopping
    /\ ~ctxErr
    /\ \E nextAction \in {chooseNextAction} :
          /\ nextAction.kind # "nil"
          /\ updatePre(nextAction)
    /\ activeActions' = activeActions + 1
    /\ UNCHANGED <<rmImages, proc, expansion, call, suiteRun, runResults, errors, ctxErr, removed, pc>>

RECURSIVE SkippedFrom(_)
\* mutant: every run of the plan is reported as skipped
SkippedFrom_All(i) ==
    [k \in 1..Len(Runs) |-> Err("Skipped test run", Runs[k].testID)]

SkippedFrom(i) ==
    IF i > Len(Runs) THEN <<>>
    ELSE (IF runStage[Runs[i].testID] # runDone
          THEN <<Err("Skipped test run", Runs[i].testID)>> ELSE <<>>)
         \o SkippedFrom(i + 1)

\* mutant: the loop is left while actions are in flight
EndDispatch_ExitsEarly ==
    /\ pc = "dispatch"
    /\ runStopping \/ ctxErr \/ chooseNextAction.kind = "nil"
    /\ errors' = errors \o SkippedFrom(1)
    /\ pc' = "exit"
    /\ UNCHANGED <<rmImages, proc, expansion, call, suiteRun, networks, baseImage, imageStage, runStage,
                   runResults, freeIDs, freeNets, activeActions, ctxErr,
                   inflight, removed>>

\* the inner loop breaks: leave the loop when nothing is in flight, else
\* wait for a result
EndDispatch ==
    /\ pc = "dispatch"
    /\ runStopping \/ ctxErr \/ chooseNextAction.kind = "nil"
    /\ IF activeActions = 0
       THEN /\ errors' = errors \o SkippedFrom(1)
            /\ pc' = "exit"
       ELSE /\ pc' = "wait"
            /\ UNCHANGED errors
    /\ UNCHANGED <<rmImages, proc, expansion, call, suiteRun, networks, baseImage, imageStage, runStage,
                   runResults, freeIDs, freeNets, activeActions, ctxErr,
                   inflight, removed>>

\* mutant: the goroutine records the error of its action in the state
ExecReturn_WritesErrors ==
    \E g \in inflight :
        /\ g.phase = "exec"
        /\ \E res \in Outcomes(g.act, ctxErr) :
              /\ inflight' = (inflight \ {g}) \cup
                              {[act |-> g.act, phase |-> "send", res |-> res]}
              /\ errors' = IF res.err THEN Append(errors, Err("exec", g.act.kind))
                           ELSE errors
        /\ UNCHANGED <<rmImages, proc, expansion, call, suiteRun, networks, baseImage, imageStage, runStage,
                       runResults, freeIDs, freeNets, activeActions,
                       ctxErr, removed, pc>>

\* a goroutine: exec of its action returns, it blocks sending the action
ExecReturn ==
    \E g \in inflight :
        /\ g.phase = "exec"
        /\ \E res \in Outcomes(g.act, ctxErr) :
              inflight' = (inflight \ {g}) \cup
                          {[act |-> g.act, phase |-> "send", res |-> res]}
        /\ UNCHANGED <<rmImages, proc, expansion, call, suiteRun, networks, baseImage, imageStage, runStage,
                       runResults, freeIDs, freeNets, errors, activeActions,
                       ctxErr, removed, pc>>

\* mutant: the context is not cancelled when the run is stopping
Receive_NoCancel ==
    \E g \in inflight :
        /\ pc = "wait"
        /\ g.phase = "send"
        /\ activeActions' = activeActions - 1
        /\ inflight' = inflight \ {g}
        /\ updatePost(g.act, g.res)
        /\ UNCHANGED <<rmImages, proc, expansion, call, suiteRun, freeNets, removed, ctxErr>>
        /\ pc' = "dispatch"

\* mutant: the number of active actions is not decreased
Receive_NoDecrement ==
    \E g \in inflight :
        /\ pc = "wait"
        /\ g.phase = "send"
        /\ activeActions' = activeActions
        /\ inflight' = inflight \ {g}
        /\ updatePost(g.act, g.res)
        /\ UNCHANGED <<rmImages, proc, expansion, call, suiteRun, freeNets, removed>>
        /\ ctxErr' = (ctxErr \/ runStopping')
        /\ pc' = "dispatch"

\* r := <-results; updatePost; cancel when stopping
Receive ==
    \E g \in inflight :
        /\ pc = "wait"
        /\ g.phase = "send"
        /\ activeActions' = activeActions - 1
        /\ inflight' = inflight \ {g}
        /\ updatePost(g.act, g.res)
        /\ UNCHANGED <<rmImages, proc, expansion, call, suiteRun, freeNets, removed>>
        /\ ctxErr' = (ctxErr \/ runStopping')
        /\ pc' = "dispatch"

\* SIGINT / SIGTERM cancels the parent context
Signal ==
    /\ pc \in {"dispatch", "wait"}
    /\ ~ctxErr
    /\ ctxErr' = TRUE
    /\ UNCHANGED <<rmImages, proc, expansion, call, suiteRun, networks, baseImage, imageStage, runStage,
                   runResults, freeIDs, freeNets, errors, activeActions,
                   inflight, removed, pc>>

----------------------------------------------------------------------------
(* tearDown *)

RECURSIVE Orders(_)
Orders(S) ==
    IF S = {} THEN {<<>>}
    ELSE UNION {{<<x>> \o o : o \in Orders(S \ {x})} : x \in S}

\* mutant: only the networks that are Ready are removed
tearDown_ReadyOnly ==
    /\ pc = "exit"
    /\ IF Len(errors) > 0 /\ suiteRun.onFailure = OnFailureKeepVms
       THEN UNCHANGED <<errors, removed>>
       ELSE /\ removed' = [n \in {m \in DOMAIN networks :
                                     networks[m].stage = networkReady} |-> 1]
            /\ \E failed \in SUBSET DOMAIN removed' :
               \E order \in Orders(failed) :
                  errors' = errors \o
                      [i \in 1..Len(order) |-> Err("remove network", order[i])]
    /\ pc' = "done"
    /\ UNCHANGED <<rmImages, proc, expansion, call, suiteRun, networks,
                   baseImage, imageStage, runStage, runResults, freeIDs,
                   freeNets, activeActions, ctxErr, inflight>>

\* removes every network unless errors are kept for inspection; removed
\* counts the removals issued per network; the order is that of a map
\* iteration, the removals that fail are appended to errors
tearDown ==
    /\ pc = "exit"
    /\ IF Len(errors) > 0 /\ suiteRun.onFailure = OnFailureKeepVms
       THEN UNCHANGED <<errors, removed>>
       ELSE /\ removed' = [n \in DOMAIN networks |-> 1]
            /\ \E failed \in SUBSET DOMAIN networks :
               \E order \in Orders(failed) :
                  errors' = errors \o
                      [i \in 1..Len(order) |-> Err("remove network", order[i])]
    /\ pc' = "done"
    /\ UNCHANGED <<rmImages, proc, expansion, call, suiteRun, networks,
                   baseImage, imageStage, runStage, runResults, freeIDs,
                   freeNets, activeActions, ctxErr, inflight>>

----------------------------------------------------------------------------
(* removeImages, deferred by provisionAndExec around runScheduler *)

\* the images removeImages ranges over, in the order of vmSpec.VMs
ImagesToRemove == [i \in 1..Len(VMs) |-> ID(VMs[i])]

\* mutant: the loop returns at the first removal that fails
removeImages_StopAtFailure ==
    /\ pc = "done"
    /\ ~rmImages.called
    /\ IF ~suiteRun.vmSpec.ProvisionFile
       THEN rmImages' = [called |-> TRUE, attempted |-> <<>>, failed |-> {}]
       ELSE \E failed \in SUBSET (1..Len(VMs)) :
               LET stop == IF failed = {} THEN Len(VMs)
                           ELSE CHOOSE i \in failed : \A j \in failed : i <= j
               IN  rmImages' = [called |-> TRUE,
                                attempted |-> SubSeq(ImagesToRemove, 1, stop),
                                failed |-> failed \cap 1..stop]
    /\ UNCHANGED <<suiteRun, networks, baseImage, imageStage, runStage,
                   runResults, freeIDs, freeNets, errors, activeActions,
                   ctxErr, inflight, removed, pc, call, expansion, proc>>

\* runs when runScheduler, tearDown included, has returned: nothing without
\* a provision file, otherwise one "virter image rm" per entry of vmSpec.VMs;
\* failed holds the positions whose removal failed, which is only logged
removeImages ==
    /\ pc = "done"
    /\ ~rmImages.called
    /\ IF ~suiteRun.vmSpec.ProvisionFile
       THEN rmImages' = [called |-> TRUE, attempted |-> <<>>, failed |-> {}]
       ELSE \E failed \in SUBSET (1..Len(VMs)) :
               rmImages' = [called |-> TRUE,
                            attempted |-> ImagesToRemove,
                            failed |-> failed]
    /\ UNCHANGED <<suiteRun, networks, baseImage, imageStage, runStage,
                   runResults, freeIDs, freeNets, errors, activeActions,
                   ctxErr, inflight, removed, pc, call, expansion, proc>>

----------------------------------------------------------------------------

Next ==
    \/ Dispatch
    \/ EndDispatch
    \/ ExecReturn
    \/ Receive
    \/ Signal
    \/ tearDown

Spec == Init /\ [][Next]_vars

\* provisionAndExec: runScheduler and then the deferred removeImages
provisionAndExecNext ==
    \/ Dispatch
    \/ EndDispatch
    \/ ExecReturn
    \/ Receive
    \/ Signal
    \/ tearDown
    \/ removeImages

provisionAndExecSpec == Init /\ [][provisionAndExecNext]_vars

\* the scheduler on a plan whose runs tie on the number of VMs
TieSpec == InitOf(SuitesOf({PlanTie})) /\ [][Next]_vars

\* the loop and the goroutines keep running, and every exec returns
FairSpec ==
    /\ Spec
    /\ WF_vars(Dispatch)
    /\ WF_vars(EndDispatch)
    /\ WF_vars(ExecReturn)
    /\ WF_vars(Receive)

----------------------------------------------------------------------------
(* The subnet allocator on its own: a user that calls ReserveNext and Free *)
(* in any order, as TestNewNetworkList does.  The scheduler does not run,  *)
(* its variables keep their initial values.                                *)

\* the blocks handed out and not freed: the keys mapped to false
Reserved(n) == {k \in DOMAIN n.freeNets : ~n.freeNets[k]}

\* the freed blocks of a family: the keys mapped to true
Freed(n, ipv6) == {k \in DOMAIN n.freeNets : n.freeNets[k] /\ isIPv6(k) = ipv6}

AllocInit ==
    /\ Init
    /\ suiteRun.testRuns = PlanLarger.runs
    /\ suiteRun.nrVMs = 1
    /\ suiteRun.onFailure = OnFailureContinue
    /\ ~suiteRun.vmSpec.ProvisionFile
    /\ ~suiteRun.pullImageTemplate

\* list.ReserveNext(ipv6)
AllocReserveNext ==
    \E ipv6 \in BOOLEAN :
        \E r \in ReserveNext(freeNets, ipv6) :
            /\ freeNets' = r.list
            /\ call' = [op |-> "ReserveNext", ipv6 |-> ipv6, net |-> r.net]
            /\ UNCHANGED <<rmImages, proc, expansion, suiteRun, networks, baseImage, imageStage,
                           runStage, runResults, freeIDs, errors, activeActions, ctxErr,
                           inflight, removed, pc>>

\* list.Free(x) of a block that is reserved, or of nil
AllocFree ==
    \E x \in Reserved(freeNets) \cup {NoNet} :
        /\ freeNets' = Free(freeNets, x)
        /\ call' = [op |-> "Free", ipv6 |-> (x # NoNet /\ isIPv6(x)), net |-> x]
        /\ UNCHANGED <<rmImages, proc, expansion, suiteRun, networks, baseImage, imageStage,
                       runStage, runResults, freeIDs, errors, activeActions, ctxErr,
                       inflight, removed, pc>>

AllocNext ==
    \/ AllocReserveNext
    \/ AllocFree

AllocSpec == AllocInit /\ [][AllocNext]_vars

----------------------------------------------------------------------------
(* The expander: createTestSuiteRun and the functions it calls.  A string
   that ends up in a test ID is the sequence of its pieces, so that
   fmt.Sprintf joins what it is given and nothing more. *)

containsString(s, e) == \E i \in DOMAIN s : s[i] = e

containsAllStrings(values, required) ==
    \A i \in DOMAIN required : containsString(values, required[i])

\* mutant: the two arguments of containsAllStrings are exchanged
matchingVMTags_Swapped(requiredVMTags, vms) ==
    SelectSeq(vms, LAMBDA v : containsAllStrings(requiredVMTags, v.VMTags))

\* mutant: every VM descriptor matches, whatever its tags
matchingVMTags_All(requiredVMTags, vms) == vms

matchingVMTags(requiredVMTags, vms) ==
    SelectSeq(vms, LAMBDA v : containsAllStrings(v.VMTags, requiredVMTags))

\* mutant: one VM, whatever the count
repeatVM_One(v, count) == <<v>>

repeatVM(v, count) == [i \in 1..count |-> v]

\* rand.Rand stands for any generator whose draws are a function of the
\* seed: a multiplicative congruential generator modulo RandMod
RandMod == 7
NewSource(randomSeed) == 1 + (randomSeed % (RandMod - 1))
NextRand(rng) == (3 * rng) % RandMod
Int63n(rng, n) == rng % n

\* returns the VM drawn and the generator after the draw
randomVM(rng, vms) ==
    IF Len(vms) = 0
    THEN [err |-> TRUE, v |-> <<>>, rng |-> rng]
    ELSE [err |-> FALSE, v |-> vms[Int63n(rng, Len(vms)) + 1],
          rng |-> NextRand(rng)]

\* fmt.Sprintf("%s-%d-%s-%d", ...)
testIDString(test, vmCount, variantName, testIndex) ==
    test \o <<"-", ToString(vmCount), "-">> \o variantName
         \o <<"-", ToString(testIndex)>>

newTestRun(config, variant, vms, testIndex) ==
    [testName |-> config.testName,
     testID   |-> testIDString(config.testName, Len(vms), variant.Name,
                               testIndex),
     vms      |-> vms,
     networks |-> config.networks,
     variant  |-> variant]

\* what an expander function returns when it fails
ExpandError(rng) == [err |-> TRUE, testRuns |-> <<>>, rng |-> rng]

\* the innermost loop of determineRunsForTestVariant: vmCount draws
RECURSIVE drawVMs(_, _, _, _)
drawVMs(rng, availableVMs, vmCount, vms) ==
    IF Len(vms) >= vmCount THEN [err |-> FALSE, vms |-> vms, rng |-> rng]
    ELSE \* v, err := randomVM(...), drawn once
         CHOOSE res \in
             {IF r.err THEN [err |-> TRUE, vms |-> <<>>, rng |-> r.rng]
              ELSE drawVMs(r.rng, availableVMs, vmCount, Append(vms, r.v)) :
                 r \in {randomVM(rng, availableVMs)}} : TRUE

\* the loop over repeatCounter of determineRunsForTestVariant
RECURSIVE determineRunsForTestVariantFrom(_, _, _, _, _, _, _)
determineRunsForTestVariantFrom(rng, config, vmCount, testVariant, availableVMs, repeatCounter, testRuns) ==
    IF repeatCounter >= config.repeats
    THEN [err |-> FALSE, testRuns |-> testRuns, rng |-> rng]
    ELSE IF config.test.NeedAllPlatforms
    THEN determineRunsForTestVariantFrom(rng, config, vmCount, testVariant,
             availableVMs, repeatCounter + 1,
             testRuns \o [i \in 1..Len(availableVMs) |->
                 newTestRun(config, testVariant,
                            repeatVM(availableVMs[i], vmCount),
                            Len(testRuns) + i - 1)])
    ELSE IF config.test.SameVMs
    THEN CHOOSE res \in
             {IF r.err THEN ExpandError(r.rng)
              ELSE determineRunsForTestVariantFrom(r.rng, config, vmCount,
                       testVariant, availableVMs, repeatCounter + 1,
                       Append(testRuns,
                              newTestRun(config, testVariant,
                                         repeatVM(r.v, vmCount),
                                         Len(testRuns)))) :
                 r \in {randomVM(rng, availableVMs)}} : TRUE
    ELSE CHOOSE res \in
             {IF d.err THEN ExpandError(d.rng)
              ELSE determineRunsForTestVariantFrom(d.rng, config, vmCount,
                       testVariant, availableVMs, repeatCounter + 1,
                       Append(testRuns,
                              newTestRun(config, testVariant, d.vms,
                                         Len(testRuns)))) :
                 d \in {drawVMs(rng, availableVMs, vmCount, <<>>)}} : TRUE

determineRunsForTestVariant(rng, config, vmCount, testVariant, availableVMs) ==
    determineRunsForTestVariantFrom(rng, config, vmCount, testVariant,
                                    availableVMs, 0, <<>>)

\* the loops of determineRunsForTest: variant k of variants, entry j of
\* config.test.VMCount
RECURSIVE determineRunsForTestFrom(_, _, _, _, _, _)
determineRunsForTestFrom(rng, config, variants, k, j, testRuns) ==
    IF k > Len(variants)
    THEN [err |-> FALSE, testRuns |-> testRuns, rng |-> rng]
    ELSE LET variant      == variants[k]
             variantVMs   == matchingVMTags(variant.VMTags, config.vmSpec.VMs)
             availableVMs == matchingVMTags(config.test.VMTags, variantVMs)
             nextVariant  == determineRunsForTestFrom(rng, config, variants,
                                                      k + 1, 1, testRuns)
         IN  IF /\ Len(config.test.Variants) > 0
                /\ ~containsString(config.test.Variants, variant.Name)
             THEN nextVariant
             ELSE IF Len(availableVMs) = 0
             THEN nextVariant   \* SKIP: no available VMs
             ELSE IF j > Len(config.test.VMCount)
             THEN nextVariant
             ELSE CHOOSE res \in
                      {IF r.err THEN ExpandError(r.rng)
                       ELSE determineRunsForTestFrom(r.rng, config, variants,
                                k, j + 1, testRuns \o r.testRuns) :
                          r \in {determineRunsForTestVariant(rng, config,
                                     config.test.VMCount[j], variant,
                                     availableVMs)}} : TRUE

determineRunsForTest(rng, config, variants) ==
    determineRunsForTestFrom(rng, config, variants, 1, 1, <<>>)

\* the loop of determineAllTestRuns; order is the order in which the range
\* over the map testSpec.Tests yields the test names
RECURSIVE determineAllTestRunsFrom(_, _, _, _, _, _, _)
determineAllTestRunsFrom(rng, vmSpec, testSpec, repeats, order, k, testRuns) ==
    IF k > Len(order)
    THEN [err |-> FALSE, testRuns |-> testRuns, rng |-> rng]
    ELSE LET testName == order[k]
             config == [vmSpec   |-> vmSpec,
                        testName |-> testName,
                        test     |-> testSpec.Tests[testName],
                        repeats  |-> repeats,
                        networks |-> testSpec.Networks
                                         \o testSpec.Tests[testName].Networks]
         IN  CHOOSE res \in
                 {IF r.err THEN ExpandError(r.rng)
                  ELSE determineAllTestRunsFrom(r.rng, vmSpec, testSpec,
                           repeats, order, k + 1, testRuns \o r.testRuns) :
                     r \in {determineRunsForTest(rng, config,
                                                 testSpec.Variants)}} : TRUE

determineAllTestRuns(rng, vmSpec, testSpec, repeats, order) ==
    determineAllTestRunsFrom(rng, vmSpec, testSpec, repeats, order, 1, <<>>)

\* the variant of a test specification without variants
variantNameDefault == <<"default">>
defaultVariant == [Name |-> variantNameDefault, IPv6 |-> FALSE, VMTags |-> <<>>]

filterVariants(variants, variantsToRun) ==
    IF Len(variants) = 0 THEN <<defaultVariant>>
    ELSE IF Len(variantsToRun) = 0 THEN variants
    ELSE SelectSeq(variants, LAMBDA v : containsString(variantsToRun, v.Name))

removeUnusedVMs(vms, testRuns) ==
    LET usedVMs == UNION {{ID(testRuns[i].vms[j]) : j \in DOMAIN testRuns[i].vms} :
                             i \in DOMAIN testRuns}
    IN  SelectSeq(vms, LAMBDA v : ID(v) \in usedVMs)

\* --torun after strings.Split(toRun, ","); "all" and "" select every test
toRunAll   == <<<<"all">>>>
toRunEmpty == <<<<>>>>

\* the tests createTestSuiteRun leaves in testSpec.Tests
filterTests(Tests, toRun) ==
    IF toRun # toRunAll /\ toRun # toRunEmpty
    THEN [testName \in {n \in DOMAIN Tests : containsString(toRun, n)} |->
             Tests[testName]]
    ELSE Tests

\* createTestSuiteRun for one order of the range over testSpec.Tests
createTestSuiteRun(rng, vmSpec, testSpec, toRun, repeats, variantsToRun, order) ==
    LET filtered == [testSpec EXCEPT
                        !.Tests = filterTests(testSpec.Tests, toRun),
                        !.Variants = filterVariants(testSpec.Variants,
                                                    variantsToRun)]
    IN  CHOOSE res \in
            {[err      |-> r.err,
              vmSpec   |-> [vmSpec EXCEPT
                               !.VMs = removeUnusedVMs(vmSpec.VMs, r.testRuns)],
              testSpec |-> filtered,
              testRuns |-> r.testRuns] :
                r \in {determineAllTestRuns(rng, vmSpec, filtered, repeats,
                                            order)}} : TRUE

----------------------------------------------------------------------------
(* The expander on its own: bounded specifications and flags *)

\* VM descriptors with their vm_tags
vmPlain == [Name |-> "", BaseImage |-> "b0", VMTags |-> <<>>]
vmZfs   == [Name |-> "", BaseImage |-> "b1", VMTags |-> <<"ssd", "zfs">>]
vmNvme  == [Name |-> "", BaseImage |-> "b2", VMTags |-> <<"nvme">>]

VMSpecs == {[VMs |-> <<vmPlain, vmZfs, vmNvme>>], [VMs |-> <<vmPlain>>]}

\* names of tests and variants
testNameA  == <<"a">>
testNameA1 == <<"a", "-", "1">>
variantNameB  == <<"b">>
variantName1B == <<"1", "-", "b">>

variantB  == [Name |-> variantNameB, IPv6 |-> FALSE, VMTags |-> <<>>]
variant1B == [Name |-> variantName1B, IPv6 |-> FALSE, VMTags |-> <<"zfs">>]

\* the [tests.a] table: every combination of its keys
TestsA ==
    [VMCount          : {<<1>>, <<2>>, <<1, 2>>, <<1, 1>>},
     VMTags           : {<<>>, <<"zfs">>, <<"x">>},
     SameVMs          : BOOLEAN,
     NeedAllPlatforms : BOOLEAN,
     Variants         : {<<>>, <<variantNameB>>},
     Networks         : {<<>>}]

\* the ["tests.a-1"] table, when there is one
TestsA1 ==
    {[VMCount |-> <<1>>, VMTags |-> <<>>, SameVMs |-> FALSE,
      NeedAllPlatforms |-> FALSE, Variants |-> <<>>, Networks |-> <<>>],
     [VMCount |-> <<2, 1>>, VMTags |-> <<"nvme">>, SameVMs |-> TRUE,
      NeedAllPlatforms |-> FALSE, Variants |-> <<>>, Networks |-> <<>>],
     [VMCount |-> <<1, 2>>, VMTags |-> <<"zfs">>, SameVMs |-> FALSE,
      NeedAllPlatforms |-> TRUE, Variants |-> <<>>, Networks |-> <<>>]}

TestMaps ==
    {[n \in {testNameA} |-> t] : t \in TestsA}
        \cup {[n \in {testNameA, testNameA1} |-> IF n = testNameA THEN t ELSE u] :
                 t \in TestsA, u \in TestsA1}

TestSpecs ==
    [Tests : TestMaps, Networks : {<<>>},
     Variants : {<<>>, <<variantB, variant1B>>}]

Seeds == 1..3

\* what main hands to createTestSuiteRun
ExpanderInputs ==
    [randomSeed    : Seeds,
     vmSpec        : VMSpecs,
     testSpec      : TestSpecs,
     toRun         : {toRunAll, <<testNameA>>},
     repeats       : 0..MaxRepeats,
     variantsToRun : {<<>>, <<variantNameB>>}]

\* main: the flags are parsed and the two specifications decoded
ReadSpecs ==
    /\ expansion.stage = "none"
    /\ \E in \in ExpanderInputs : expansion' = [stage |-> "read", in |-> in]
    /\ UNCHANGED <<suiteRun, networks, baseImage, imageStage, runStage,
                   runResults, freeIDs, freeNets, errors, activeActions,
                   ctxErr, inflight, removed, pc, call, proc,
                   rmImages>>

\* main: createTestSuiteRun(randomGenerator, vmSpec, testSpec, toRun, outDir,
\* repeats, variantsToRun)
Expand ==
    /\ expansion.stage = "read"
    /\ \E order \in Orders(DOMAIN filterTests(expansion.in.testSpec.Tests,
                                              expansion.in.toRun)) :
           expansion' =
               [stage |-> "done",
                in    |-> expansion.in,
                order |-> order,
                out   |-> createTestSuiteRun(
                              NewSource(expansion.in.randomSeed),
                              expansion.in.vmSpec, expansion.in.testSpec,
                              expansion.in.toRun, expansion.in.repeats,
                              expansion.in.variantsToRun, order)]
    /\ UNCHANGED <<suiteRun, networks, baseImage, imageStage, runStage,
                   runResults, freeIDs, freeNets, errors, activeActions,
                   ctxErr, inflight, removed, pc, call, proc,
                   rmImages>>

\* a second start of the program with the same flags, seed and files
ExpandAgain ==
    /\ expansion.stage = "done"
    /\ \E order \in Orders(DOMAIN filterTests(expansion.in.testSpec.Tests,
                                              expansion.in.toRun)) :
           expansion' =
               [stage  |-> "again",
                in     |-> expansion.in,
                order  |-> expansion.order,
                out    |-> expansion.out,
                order2 |-> order,
                out2   |-> createTestSuiteRun(
                               NewSource(expansion.in.randomSeed),
                               expansion.in.vmSpec, expansion.in.testSpec,
                               expansion.in.toRun, expansion.in.repeats,
                               expansion.in.variantsToRun, order)]
    /\ UNCHANGED <<suiteRun, networks, baseImage, imageStage, runStage,
                   runResults, freeIDs, freeNets, errors, activeActions,
                   ctxErr, inflight, removed, pc, call, proc,
                   rmImages>>

ExpandNext ==
    \/ ReadSpecs
    \/ Expand
    \/ ExpandAgain

ExpandSpec == AllocInit /\ [][ExpandNext]_vars

----------------------------------------------------------------------------
(* One exec of an action: the subprocess it runs under cmdRunTerm, the
   contexts it is given, and what the function around it returns *)

\* errors, by where they come from
NilErr == "nil"

\* the file operations of cmdStderrTerm that can fail
IOFailures ==
    [mkdirErr : BOOLEAN, stderrWriteErr : BOOLEAN, metaMkdirErr : BOOLEAN,
     jsonErr : {FALSE}, metaWriteErr : BOOLEAN]

\* mutant: the error of the child wins over the errors of the log writes
cmdStderrTerm_ChildFirst(err, metaPath, io) ==
    IF err # NilErr THEN err
    ELSE IF io.mkdirErr THEN "mkdirErr"
    ELSE IF io.stderrWriteErr THEN "stderrWriteErr"
    ELSE IF metaPath /\ io.metaMkdirErr THEN "mkdirErr"
    ELSE IF metaPath /\ io.jsonErr THEN "jsonErr"
    ELSE IF metaPath /\ io.metaWriteErr THEN "metaWriteErr"
    ELSE err

\* cmdStderrTerm after cmdRunTerm has returned err; metaPath is metaPath != ""
cmdStderrTerm(err, metaPath, io) ==
    IF io.mkdirErr THEN "mkdirErr"
    ELSE IF io.stderrWriteErr THEN "stderrWriteErr"
    ELSE IF metaPath /\ io.metaMkdirErr THEN "mkdirErr"
    ELSE IF metaPath /\ io.jsonErr THEN "jsonErr"
    ELSE IF metaPath /\ io.metaWriteErr THEN "metaWriteErr"
    ELSE err

\* the end of execTest: cancelled is ctx.Err() != nil at that moment, timeout
\* is testCtx.Err() != nil right after cmdRunTerm, err is what it returned
execTestStatus(cancelled, timeout, err) ==
    IF cancelled THEN [status |-> StatusCanceled, err |-> "canceled"]
    ELSE IF timeout THEN [status |-> StatusFailedTimeout, err |-> "timeout"]
    ELSE IF err # NilErr THEN [status |-> StatusFailed, err |-> err]
    ELSE [status |-> StatusSuccess, err |-> NilErr]

\* the files performTest writes after execTest
ReportFailures == [testLog : BOOLEAN, xmlLog : BOOLEAN, report : BOOLEAN]

\* the end of performTest: a failed write replaces the error of the result
performTestResult(testRes, io) ==
    [status |-> testRes.status,
     err    |-> IF io.report THEN "reportErr"
                ELSE IF io.xmlLog THEN "xmlLogErr"
                ELSE IF io.testLog THEN "testLogErr"
                ELSE testRes.err]

\* the end of provisionImage
provisionImageResult(cancelled, provisionCtxErr, err) ==
    IF cancelled THEN "canceled"
    ELSE IF provisionCtxErr THEN "timeout"
    ELSE err

\* mutant: the VMs are removed whatever the result and the policy
shutdownVMs_Always(res, onFailure, testnodes) == testnodes

\* the VMs shutdownVMs runs "virter vm rm" for; a removal that fails is
\* logged and the loop goes on
shutdownVMs(res, onFailure, testnodes) ==
    IF res.status = StatusFailed /\ onFailure = OnFailureKeepVms
    THEN {}
    ELSE testnodes

\* execTest defers shutdownVMs right after startVMs, with a pointer to its
\* result: the call sees the status execTest returns
execTestShutdownVMs(testRes, testnodes) ==
    shutdownVMs(testRes, suiteRun.onFailure, testnodes)

ActionKinds == {"AddNetwork", "PullImage", "ProvisionImage", "PerformTest"}

\* the actions that run their command under a context with a deadline
HasDeadline(kind) == kind \in {"ProvisionImage", "PerformTest"}

\* pullImage builds its command with exec.CommandContext
IsCommandContext(kind) == kind = "PullImage"

\* provisionImage passes a metaPath
HasMetaPath(kind) == kind = "ProvisionImage"

\* the context handed to cmdRunTerm is done
RunCtxDone == proc.ctx \/ (HasDeadline(proc.kind) /\ proc.deadline)

\* close(complete) has happened
CompleteClosed == proc.pc \in {"closed", "returned", "done"}

Running == proc.pc \in {"start", "wait", "closed", "returned"}

NoResult == [status |-> "", err |-> NilErr]

\* exec of an action begins; performTest and execTest can end before the
\* test command is built
ProcBegin ==
    /\ proc.pc = "none"
    /\ \E kind \in ActionKinds, cancelled \in BOOLEAN :
       \E early \in IF kind = "PerformTest"
                    THEN {"no", "MkdirAll", "startVMs"} ELSE {"no"} :
       \E run \in IF kind = "PerformTest" THEN 1..Len(Runs) ELSE {NoRun} :
           proc' = [pc       |-> IF early = "no" THEN "start"
                                 ELSE IF early = "startVMs" THEN "returned"
                                 ELSE "done",
                    kind     |-> kind,
                    ctx      |-> cancelled,
                    deadline |-> FALSE,
                    child    |-> "none",
                    childErr |-> FALSE,
                    watcher  |-> "none",
                    killer   |-> "none",
                    timer    |-> FALSE,
                    signals  |-> <<>>,
                    err      |-> NilErr,
                    timeout  |-> FALSE,
                    early    |-> early,
                    run      |-> run,
                    started  |-> IF kind = "PerformTest" /\ early # "MkdirAll"
                                 THEN 1..Len(Runs[run].vms) ELSE {},
                    vmRm     |-> {},
                    wrote    |-> TRUE,
                    ret      |-> NilErr,
                    result   |-> IF early = "MkdirAll"
                                 THEN [status |-> "", err |-> "mkdirErr"]
                                 ELSE IF early = "startVMs"
                                 THEN [status |-> StatusError, err |-> "startVMs"]
                                 ELSE NoResult]
    /\ UNCHANGED <<suiteRun, networks, baseImage, imageStage, runStage,
                   runResults, freeIDs, freeNets, errors, activeActions,
                   ctxErr, inflight, removed, pc, call, expansion, rmImages>>

\* what the steps of one exec leave alone
ProcFrame ==
    UNCHANGED <<suiteRun, networks, baseImage, imageStage, runStage,
                runResults, freeIDs, freeNets, errors, activeActions,
                ctxErr, inflight, removed, pc, call, expansion, rmImages>>

\* the shared context is cancelled
ctxCancel ==
    /\ Running
    /\ ~proc.ctx
    /\ proc' = [proc EXCEPT !.ctx = TRUE]
    /\ ProcFrame

\* the deadline of provisionCtx or testCtx passes
ctxDeadline ==
    /\ Running
    /\ HasDeadline(proc.kind)
    /\ ~proc.deadline
    /\ proc' = [proc EXCEPT !.deadline = TRUE]
    /\ ProcFrame

\* cmdRunTerm: cmd.Start(), and on success go handleTermination(...); a
\* command of exec.CommandContext does not start under a context that is done
\* and is watched by os/exec from then on
cmdStart ==
    /\ proc.pc = "start"
    /\ \E ok \in IF IsCommandContext(proc.kind) /\ proc.ctx
                 THEN {FALSE} ELSE BOOLEAN :
           proc' = IF ok
                   THEN [proc EXCEPT !.pc = "wait", !.child = "running",
                                     !.watcher = "select1",
                                     !.killer = IF IsCommandContext(proc.kind)
                                                THEN "watch" ELSE "none"]
                   ELSE [proc EXCEPT !.pc = "returned", !.err = "startErr",
                                     !.timeout = RunCtxDone]
    /\ ProcFrame

\* the child exits, by itself or because of a signal it was sent
childExit ==
    /\ Running
    /\ proc.child = "running"
    /\ \E failed \in IF \E i \in DOMAIN proc.signals : proc.signals[i].sig = "SIGKILL"
                     THEN {TRUE} ELSE BOOLEAN :
           proc' = [proc EXCEPT !.child = "exited", !.childErr = failed]
    /\ ProcFrame

\* cmdRunTerm: err = cmd.Wait() returns, close(complete)
cmdWait ==
    /\ proc.pc = "wait"
    /\ proc.child = "exited"
    /\ proc' = [proc EXCEPT !.pc = "closed",
                            !.err = IF proc.childErr THEN "exitErr" ELSE NilErr,
                            !.killer = IF proc.killer = "watch" THEN "done"
                                       ELSE proc.killer]
    /\ ProcFrame

\* os/exec for a command of exec.CommandContext: the context is done before
\* Wait has returned, the process is killed
commandContextKill ==
    /\ Running
    /\ proc.killer = "watch"
    /\ proc.ctx
    /\ proc' = [proc EXCEPT !.killer = "done",
                            !.signals = Append(proc.signals,
                                [sig |-> "SIGKILL", by |-> "os/exec"])]
    /\ ProcFrame

\* mutant: the watcher kills without waiting for the timer
handleTerminationCtxDone_Kill ==
    /\ Running
    /\ proc.watcher = "select1"
    /\ RunCtxDone
    /\ proc' = [proc EXCEPT !.watcher = "finished",
                            !.signals = Append(proc.signals,
                                [sig |-> "SIGKILL", by |-> "handleTermination"])]
    /\ ProcFrame

\* handleTermination, outer select: case <-ctx.Done(), send SIGTERM
handleTerminationCtxDone ==
    /\ Running
    /\ proc.watcher = "select1"
    /\ RunCtxDone
    /\ proc' = [proc EXCEPT !.watcher = "select2",
                            !.signals = Append(proc.signals,
                                [sig |-> "SIGTERM", by |-> "handleTermination"])]
    /\ ProcFrame

\* the 30 seconds of time.After pass
timeAfter ==
    /\ Running
    /\ proc.watcher = "select2"
    /\ ~proc.timer
    /\ proc' = [proc EXCEPT !.timer = TRUE]
    /\ ProcFrame

\* handleTermination, inner select: case <-time.After(30 * time.Second)
handleTerminationTimer ==
    /\ Running
    /\ proc.watcher = "select2"
    /\ proc.timer
    /\ proc' = [proc EXCEPT !.watcher = "finished",
                            !.signals = Append(proc.signals,
                                [sig |-> "SIGKILL", by |-> "handleTermination"])]
    /\ ProcFrame

\* handleTermination, either select: case <-complete, then close(finished)
handleTerminationComplete ==
    /\ Running
    /\ proc.watcher \in {"select1", "select2"}
    /\ CompleteClosed
    /\ proc' = [proc EXCEPT !.watcher = "finished"]
    /\ ProcFrame

\* mutant: cmdRunTerm returns without waiting for the watcher
cmdRunTermReturn_NoWait ==
    /\ proc.pc = "closed"
    /\ proc' = [proc EXCEPT !.pc = "returned", !.timeout = RunCtxDone]
    /\ ProcFrame

\* cmdRunTerm: <-finished, return err; execTest reads testCtx.Err() next
cmdRunTermReturn ==
    /\ proc.pc = "closed"
    /\ proc.watcher = "finished"
    /\ proc' = [proc EXCEPT !.pc = "returned", !.timeout = RunCtxDone]
    /\ ProcFrame

\* the function around cmdRunTerm returns: cmdStderrTerm for the commands it
\* runs, execTest and performTest for the test command
ProcEnd ==
    /\ proc.pc = "returned"
    /\ IF proc.kind = "PerformTest"
       THEN \E io \in ReportFailures :
            \E testRes \in {IF proc.early = "startVMs" THEN proc.result
                            ELSE execTestStatus(proc.ctx, proc.timeout, proc.err)} :
                proc' = [proc EXCEPT
                    !.pc = "done",
                    !.vmRm = execTestShutdownVMs(testRes, proc.started),
                    !.wrote = ~(io.testLog \/ io.xmlLog \/ io.report),
                    !.result = performTestResult(testRes, io)]
       ELSE \E io \in IOFailures :
                proc' = [proc EXCEPT
                    !.pc = "done",
                    !.wrote = cmdStderrTerm(NilErr, HasMetaPath(proc.kind), io) = NilErr,
                    !.ret = cmdStderrTerm(proc.err, HasMetaPath(proc.kind), io),
                    !.result =
                        [status |-> "",
                         err |-> IF proc.kind = "ProvisionImage"
                                 THEN provisionImageResult(proc.ctx, RunCtxDone,
                                          cmdStderrTerm(proc.err, TRUE, io))
                                 ELSE cmdStderrTerm(proc.err, FALSE, io)]]
    /\ ProcFrame

ProcNext ==
    \/ ProcBegin
    \/ ctxCancel
    \/ ctxDeadline
    \/ cmdStart
    \/ childExit
    \/ cmdWait
    \/ commandContextKill
    \/ handleTerminationCtxDone
    \/ timeAfter
    \/ handleTerminationTimer
    \/ handleTerminationComplete
    \/ cmdRunTermReturn
    \/ ProcEnd

\* one exec at a time is followed, under each failure policy
ProcInit ==
    /\ Init
    /\ suiteRun.testRuns = PlanLarger.runs
    /\ suiteRun.nrVMs = 1
    /\ ~suiteRun.vmSpec.ProvisionFile
    /\ ~suiteRun.pullImageTemplate

ProcSpec == ProcInit /\ [][ProcNext]_vars

\* the goroutines of cmdRunTerm keep running
ProcFairSpec ==
    /\ ProcSpec
    /\ WF_vars(cmdWait)
    /\ WF_vars(handleTerminationComplete)
    /\ WF_vars(cmdRunTermReturn)

----------------------------------------------------------------------------
(* Vocabulary of the properties *)

AllIDs == {suiteRun.startVM + i : i \in 0..(suiteRun.nrVMs - 1)}

\* the actions whose updatePre was applied and whose updatePost was not
InFlight(kind) == {g \in inflight : g.act.kind = kind}

\* the VM IDs an in-flight action holds
HeldIDs(g) ==
    IF g.act.kind = "PerformTest" THEN SeqRange(g.act.ids)
    ELSE IF g.act.kind = "ProvisionImage" THEN {g.act.id}
    ELSE {}

\* the networks an in-flight provisioning build or test holds
HeldNets(g) ==
    IF g.act.kind = "PerformTest" THEN SeqRange(g.act.networkNames)
    ELSE IF g.act.kind = "ProvisionImage" THEN {g.act.networkName}
    ELSE {}

RECURSIVE SumHeld(_)
SumHeld(S) ==
    IF S = {} THEN 0
    ELSE LET g == CHOOSE x \in S : TRUE
         IN  Cardinality(HeldIDs(g)) + SumHeld(S \ {g})

InLoop == pc \in {"dispatch", "wait"}

\* the actions started by a step / the action whose result a step applied
Started == {g.act : g \in inflight'} \ {g.act : g \in inflight}
Applied == {g \in inflight : g.phase = "send" /\ g \notin inflight'}

----------------------------------------------------------------------------
(* C1: every VM ID of the range is either free or held by exactly one      *)
(* in-flight action, never both and never by two actions, so the free IDs  *)
(* and the held IDs add up to nrVMs.                                       *)

C1_IDConservation ==
    /\ freeIDs \subseteq AllIDs
    /\ \A id \in AllIDs :
          Cardinality({g \in inflight : id \in HeldIDs(g)})
              = IF id \in freeIDs THEN 0 ELSE 1
    /\ Cardinality(freeIDs) + SumHeld(inflight) = suiteRun.nrVMs

\* a test and a provisioning build hold all IDs between them
C1_Witness ==
    /\ freeIDs = {}
    /\ InFlight("PerformTest") # {}
    /\ InFlight("ProvisionImage") # {}

----------------------------------------------------------------------------
(* C2: a run moves from New to Exec only by a PerformTest dispatched in a  *)
(* state where the base image and image of each of its VMs are Ready, an   *)
(* access network of the variant's family is Ready, and its extra network  *)
(* specs can be matched to pairwise distinct Ready extra networks.         *)

ReadyToExec(r) ==
    /\ \A k \in 1..Len(Runs[r].vms) :
          /\ baseImage[Runs[r].vms[k].BaseImage] = imageReady
          /\ imageStage[ID(Runs[r].vms[k])] = imageReady
    /\ \E n \in DOMAIN networks :
          /\ networks[n].stage = networkReady
          /\ networks[n].isAccess
          /\ networks[n].network = accessNetwork(Runs[r].variant.IPv6)
    /\ \E f \in [1..Len(Runs[r].networks) -> DOMAIN networks] :
          /\ \A i, j \in DOMAIN f : i # j => f[i] # f[j]
          /\ \A i \in DOMAIN f :
                /\ networks[f[i]].stage = networkReady
                /\ networks[f[i]].network = Runs[r].networks[i]

C2_ExecNeedsReady ==
    [][\A t \in DOMAIN runStage :
          (runStage[t] = runNew /\ runStage'[t] = runExec) =>
              \E a \in Started :
                  /\ a.kind = "PerformTest"
                  /\ Runs[a.run].testID = t
                  /\ ReadyToExec(a.run)]_vars

\* a run with two extra networks of the same specification executes
C2_Witness ==
    \E g \in InFlight("PerformTest") :
        /\ Len(Runs[g.act.run].networks) = 2
        /\ runStage[Runs[g.act.run].testID] = runExec
        /\ suiteRun.vmSpec.ProvisionFile

----------------------------------------------------------------------------
(* C3: at most one AddNetwork is in flight, at most one network is in      *)
(* stage Add.                                                              *)

C3_OneAddNetwork ==
    /\ Cardinality(InFlight("AddNetwork")) <= 1
    /\ Cardinality({n \in DOMAIN networks : networks[n].stage = networkAdd}) <= 1
    /\ \A n \in DOMAIN networks :
          networks[n].stage = networkAdd <=>
              \E g \in InFlight("AddNetwork") : g.act.networkName = n

\* the loop is about to choose, a provisioning build needs an access network
\* that does not exist, and a network is still being added
C3_Witness ==
    /\ pc = "dispatch"
    /\ ~runStopping
    /\ ~ctxErr
    /\ \E n \in DOMAIN networks : networks[n].stage = networkAdd
    /\ InFlight("ProvisionImage") # {}
    /\ freeIDs # {}
    /\ \E i \in 1..Len(VMs) :
          /\ baseImage[VMs[i].BaseImage] = imageReady
          /\ imageStage[ID(VMs[i])] = imageNone
    /\ \A n \in DOMAIN networks : networks[n].stage # networkReady

----------------------------------------------------------------------------
(* C4: no network is held by two in-flight actions: a Busy network has     *)
(* exactly one holder, a network in any other stage, Add included, none.   *)

C4_NetworkOneHolder ==
    /\ \A n \in DOMAIN networks :
          Cardinality({g \in inflight : n \in HeldNets(g)})
              = IF networks[n].stage = networkBusy THEN 1 ELSE 0
    /\ \A g \in inflight : HeldNets(g) \subseteq DOMAIN networks

\* a test and a provisioning build run at the same time
C4_Witness ==
    \E g1 \in InFlight("PerformTest") : \E g2 \in InFlight("ProvisionImage") :
        /\ HeldNets(g1) # {}
        /\ HeldNets(g2) # {}

----------------------------------------------------------------------------
(* C5: while a run is in stage Exec its images stay Ready and its networks *)
(* stay Busy; its updatePost returns exactly those networks to Ready and   *)
(* exactly its IDs to the free set.                                        *)

C5_ExecHolds ==
    /\ \A g \in InFlight("PerformTest") :
          /\ runStage[Runs[g.act.run].testID] = runExec
          /\ \A k \in 1..Len(Runs[g.act.run].vms) :
                /\ baseImage[Runs[g.act.run].vms[k].BaseImage] = imageReady
                /\ imageStage[ID(Runs[g.act.run].vms[k])] = imageReady
          /\ Len(g.act.networkNames) = 1 + Len(Runs[g.act.run].networks)
          /\ \A n \in SeqRange(g.act.networkNames) :
                networks[n].stage = networkBusy
    /\ \A t \in DOMAIN runStage :
          runStage[t] = runExec =>
              \E g \in InFlight("PerformTest") : Runs[g.act.run].testID = t

C5_PostReleases ==
    \A g \in Applied :
        g.act.kind = "PerformTest" =>
            /\ runStage'[Runs[g.act.run].testID] = runDone
            /\ DOMAIN networks' = DOMAIN networks
            /\ \A n \in DOMAIN networks :
                  networks'[n] =
                      IF n \in SeqRange(g.act.networkNames)
                      THEN [networks[n] EXCEPT !.stage = networkReady]
                      ELSE networks[n]
            /\ SeqRange(g.act.ids) \cap freeIDs = {}
            /\ freeIDs' = freeIDs \cup SeqRange(g.act.ids)

C5_ExecStable == [](C5_ExecHolds) /\ [][C5_PostReleases]_vars

\* a run with extra networks is done while another run still executes
C5_Witness ==
    \E r \in 1..Len(Runs) :
        /\ Len(Runs[r].networks) > 0
        /\ runStage[Runs[r].testID] = runDone
        /\ InFlight("PerformTest") # {}

----------------------------------------------------------------------------
(* C6 as stated: no two in-flight ProvisionImage actions build from the    *)
(* same base image.                                                        *)

C6_OneBuildPerBaseImage ==
    \A g1, g2 \in InFlight("ProvisionImage") :
        g1 # g2 => VMs[g1.act.v].BaseImage # VMs[g2.act.v].BaseImage

(* C6 amended: two in-flight ProvisionImage actions never build the same   *)
(* image ID; they build from one base image only for two descriptors with  *)
(* different IDs, at least one of which carries a name.                    *)

C6_OneBuildPerImageID ==
    \A g1, g2 \in InFlight("ProvisionImage") :
        g1 # g2 =>
            /\ ID(VMs[g1.act.v]) # ID(VMs[g2.act.v])
            /\ VMs[g1.act.v].BaseImage = VMs[g2.act.v].BaseImage =>
                  VMs[g1.act.v].Name # VMs[g2.act.v].Name

\* two builds from one base image run at the same time
C6_Witness ==
    \E g1, g2 \in InFlight("ProvisionImage") :
        /\ g1 # g2
        /\ VMs[g1.act.v].BaseImage = VMs[g2.act.v].BaseImage

----------------------------------------------------------------------------
(* C7: per base image at most one PullImage is in flight, per image ID at  *)
(* most one ProvisionImage, and a ProvisionImage is dispatched only when   *)
(* the base image of its VM is Ready.                                      *)

C7_Exclusive ==
    /\ \A g1, g2 \in InFlight("PullImage") :
          g1 # g2 => g1.act.Image # g2.act.Image
    /\ \A g \in InFlight("PullImage") : baseImage[g.act.Image] = imageProvision
    /\ \A g1, g2 \in InFlight("ProvisionImage") :
          g1 # g2 => ID(VMs[g1.act.v]) # ID(VMs[g2.act.v])
    /\ \A g \in InFlight("ProvisionImage") :
          imageStage[ID(VMs[g.act.v])] = imageProvision

C7_ProvisionAfterPull ==
    \A a \in Started :
        /\ a.kind = "ProvisionImage" =>
              /\ baseImage[VMs[a.v].BaseImage] = imageReady
              /\ imageStage[ID(VMs[a.v])] = imageNone
        /\ a.kind = "PullImage" => baseImage[a.Image] = imageNone

C7_ImageActions == [](C7_Exclusive) /\ [][C7_ProvisionAfterPull]_vars

\* a build runs on a pulled base image while another base image is pulled
C7_Witness ==
    /\ suiteRun.pullImageTemplate
    /\ InFlight("ProvisionImage") # {}
    /\ InFlight("PullImage") # {}

----------------------------------------------------------------------------
(* C8: the first network of every PerformTest is an access network whose   *)
(* IPv6 flag is that of the run's variant.                                 *)

C8_AccessNetworkFamily ==
    \A g \in InFlight("PerformTest") :
        /\ g.act.networkNames[1] \in DOMAIN networks
        /\ networks[g.act.networkNames[1]].isAccess
        /\ networks[g.act.networkNames[1]].network.IPv6
              = Runs[g.act.run].variant.IPv6

\* a run of an IPv6 variant executes while a non-IPv6 access network exists
C8_Witness ==
    /\ \E g \in InFlight("PerformTest") : Runs[g.act.run].variant.IPv6
    /\ \E n \in DOMAIN networks :
          networks[n].isAccess /\ ~networks[n].network.IPv6

----------------------------------------------------------------------------
(* C9: once a post has left the stop condition true the loop applies no    *)
(* further pre, the context is cancelled, and the loop leaves only when no *)
(* action is in flight, applying one post per received completion.         *)

C9_NoPreWhenStopping ==
    (InLoop /\ runStopping) =>
        /\ Started = {}
        /\ activeActions' <= activeActions
        /\ (pc' \notin {"dispatch", "wait"} => activeActions = 0)
        /\ runStopping'

C9_Cancelled == (InLoop /\ runStopping) => ctxErr

C9_Drained ==
    /\ activeActions = Cardinality(inflight)
    /\ ~InLoop => inflight = {}

C9_StopAndDrain ==
    [](C9_Cancelled /\ C9_Drained) /\ [][C9_NoPreWhenStopping]_vars

\* the stop condition holds and completions are still awaited
C9_Witness ==
    /\ pc = "wait"
    /\ runStopping
    /\ ctxErr
    /\ inflight # {}

----------------------------------------------------------------------------
(* C10: the post of a failed PullImage, ProvisionImage or AddNetwork makes *)
(* the stop condition true under every failure policy; the post of a       *)
(* failed PerformTest makes it true under terminate and keep-vms and       *)
(* leaves it unchanged under continue; no pre is applied once it is true.  *)

C10_Step ==
    /\ \A g \in Applied :
          g.res.err =>
              IF g.act.kind # "PerformTest" \/ suiteRun.onFailure # OnFailureContinue
              THEN runStopping' /\ ctxErr'
              ELSE runStopping' = runStopping /\ ctxErr' = ctxErr
    /\ (InLoop /\ runStopping) => Started = {}

C10_FatalFailures == [][C10_Step]_vars

\* under continue a run is dispatched after another run has failed
C10_Witness ==
    /\ suiteRun.onFailure = OnFailureContinue
    /\ \E i \in 1..Len(errors) : errors[i].kind = "test"
    /\ \E g \in InFlight("PerformTest") :
          /\ Len(Runs[g.act.run].vms) < suiteRun.nrVMs
          /\ Cardinality(InFlight("PerformTest")) = 1
    /\ ~ctxErr

----------------------------------------------------------------------------
(* C11: after the loop has left, every run still in stage New, and no      *)
(* other run, has exactly one "Skipped test run" error and no entry in the *)
(* result map; every run in stage Done has an entry in the result map and  *)
(* no run is left in stage Exec.  Inside the loop no run is reported as    *)
(* skipped.                                                                *)

SkippedErrors(t) ==
    Cardinality({i \in 1..Len(errors) :
                    errors[i] = Err("Skipped test run", t)})

C11_SkippedAtExit ==
    \A r \in 1..Len(Runs) :
        LET t == Runs[r].testID IN
        IF InLoop THEN SkippedErrors(t) = 0
        ELSE /\ runStage[t] \in {runNew, runDone}
             /\ SkippedErrors(t) = (IF runStage[t] = runNew THEN 1 ELSE 0)
             /\ runStage[t] = runNew => t \notin DOMAIN runResults
             /\ runStage[t] = runDone => t \in DOMAIN runResults

\* the loop has left with one run done and another run never started
C11_Witness ==
    /\ pc = "exit"
    /\ \E t \in DOMAIN runStage : runStage[t] = runNew
    /\ \E t \in DOMAIN runStage : runStage[t] = runDone

----------------------------------------------------------------------------
(* The exit code *)

\* printSummaryTable: 1 as soon as a run has no result or a result with an
\* error
printSummaryTable ==
    IF \A r \in 1..Len(Runs) :
          /\ Runs[r].testID \in DOMAIN runResults
          /\ ~runResults[Runs[r].testID].err
    THEN 0 ELSE 1

----------------------------------------------------------------------------
(* C12: the exit code is 0 if and only if every run of the plan finished   *)
(* with status Success, and 1 otherwise.                                   *)

AllSuccess ==
    \A r \in 1..Len(Runs) :
        /\ Runs[r].testID \in DOMAIN runResults
        /\ runResults[Runs[r].testID].status = StatusSuccess

C12_ExitCode ==
    pc = "done" =>
        /\ printSummaryTable \in {0, 1}
        /\ printSummaryTable = 0 <=> AllSuccess

----------------------------------------------------------------------------
(* C13: chooseNextAction returns a PerformTest for a run only when no run  *)
(* in stage New with more VMs fits into the IDs that are not held by runs  *)
(* in Exec, whether or not that larger run could start now.                *)

C13_LargerFirst ==
    chooseNextAction.kind = "PerformTest" =>
        \A r2 \in 1..Len(Runs) :
            (/\ runStage[Runs[r2].testID] = runNew
             /\ Len(Runs[r2].vms) <= countNonTestIDs)
                => Len(Runs[r2].vms) <= Len(Runs[chooseNextAction.run].vms)

\* the loop is about to choose, a smaller run could start now, a larger run
\* fits but its images are not ready, and no test is chosen
C13_Witness ==
    /\ pc = "dispatch"
    /\ ~runStopping
    /\ ~ctxErr
    /\ chooseNextAction.kind \notin {"PerformTest", "nil"}
    /\ \E r, r2 \in 1..Len(Runs) :
          /\ runStage[Runs[r].testID] = runNew
          /\ runStage[Runs[r2].testID] = runNew
          /\ Len(Runs[r2].vms) > Len(Runs[r].vms)
          /\ Len(Runs[r2].vms) <= countNonTestIDs
          /\ ~allImagesReady(r2)
          /\ allImagesReady(r)
          /\ allNetworksReady(r)
          /\ Cardinality(freeIDs) >= Len(Runs[r].vms)

----------------------------------------------------------------------------
(* C14: the IDs handed to an action that demands N IDs are the N smallest  *)
(* free IDs in ascending order: a PerformTest gets as many IDs as its run  *)
(* has VMs, a ProvisionImage the smallest free ID.                         *)

RECURSIVE SmallestIDs(_, _)
SmallestIDs(S, n) ==
    IF n = 0 \/ S = {} THEN <<>>
    ELSE <<Min(S)>> \o SmallestIDs(S \ {Min(S)}, n - 1)

C14_Step ==
    \A a \in Started :
        /\ a.kind = "PerformTest" =>
              a.ids = SmallestIDs(freeIDs, Len(Runs[a.run].vms))
        /\ a.kind = "ProvisionImage" =>
              <<a.id>> = SmallestIDs(freeIDs, 1)

C14_SmallestIDs == [][C14_Step]_vars

----------------------------------------------------------------------------
(* C15: when every exec returns, the loop terminates: it leaves the loop   *)
(* and does so exactly when the inner loop ends with no action in flight;  *)
(* it waits for a result only while an action is in flight.                *)

C15_ExitStep ==
    /\ (pc = "dispatch" /\ pc' # "dispatch") =>
          /\ Started = {}
          /\ pc' = (IF inflight = {} THEN "exit" ELSE "wait")
    /\ (InLoop /\ pc' = "exit") => (pc = "dispatch" /\ activeActions = 0)

C15_Terminates == <>(~InLoop) /\ [][C15_ExitStep]_vars

\* the loop has left after adding networks and running every run of the plan
C15_Witness ==
    /\ pc = "done"
    /\ Cardinality(DOMAIN networks) >= 3
    /\ \A t \in DOMAIN runStage : runStage[t] = runDone

----------------------------------------------------------------------------
(* C16: under failure policy continue, as long as no PullImage,            *)
(* ProvisionImage or AddNetwork fails and the context is not cancelled,    *)
(* every run with between 1 and nrVMs VMs reaches Done, through Exec, with *)
(* a recorded result, and is not reported as skipped.                      *)

\* the hypothesis of the claim no longer holds (and never will again)
C16_Excused ==
    \/ suiteRun.onFailure # OnFailureContinue
    \/ ctxErr
    \/ \E i \in 1..Len(errors) :
          errors[i].kind \in {"pull image", "provision", "add network"}

Eligible == {r \in 1..Len(Runs) :
                Len(Runs[r].vms) >= 1 /\ Len(Runs[r].vms) <= suiteRun.nrVMs}

C16_AllDone ==
    \A r \in Eligible :
        /\ runStage[Runs[r].testID] = runDone
        /\ Runs[r].testID \in DOMAIN runResults

C16_NotSkipped ==
    (~InLoop /\ ~C16_Excused) => (C16_AllDone /\ \A r \in Eligible :
                                    SkippedErrors(Runs[r].testID) = 0)

C16_ThroughExec ==
    \A t \in DOMAIN runStage :
        /\ (runStage[t] = runNew => runStage'[t] \in {runNew, runExec})
        /\ (runStage[t] = runExec => runStage'[t] \in {runExec, runDone})

C16_EveryRunRuns ==
    /\ <>(C16_Excused \/ C16_AllDone)
    /\ [](C16_NotSkipped)
    /\ [][C16_ThroughExec]_vars

\* the loop has left under continue: a run has failed, the other runs were
\* still run, and a run that needs more VMs than there are slots was not
C16_Witness ==
    /\ pc = "exit"
    /\ ~C16_Excused
    /\ C16_AllDone
    /\ \E i \in 1..Len(errors) : errors[i].kind = "test"
    /\ Eligible # {}
    /\ Eligible # 1..Len(Runs)
    /\ suiteRun.vmSpec.ProvisionFile

----------------------------------------------------------------------------
(* C17: the resource state is changed only by the loop, one updatePre or   *)
(* one updatePost per step: an updatePre when an action is dispatched, an  *)
(* updatePost when its completion is received, in whatever order the       *)
(* completions arrive; the return of an exec changes no resource state.    *)

ResourceState ==
    <<networks, baseImage, imageStage, runStage, runResults, freeIDs,
      freeNets, errors>>

\* the goroutines whose exec returns in a step
Returned == {g \in inflight : g.phase = "exec" /\ g \notin inflight'}

C17_Step ==
    /\ ResourceState' # ResourceState =>
          \/ /\ pc = "dispatch" /\ pc' = "dispatch"
             /\ Cardinality(inflight' \ inflight) = 1
             /\ inflight \subseteq inflight'
             /\ \A g \in inflight' \ inflight : g.phase = "exec"
          \/ /\ pc = "wait" /\ pc' = "dispatch"
             /\ Cardinality(Applied) = 1
             /\ inflight' = inflight \ Applied
          \/ /\ pc = "dispatch" /\ pc' = "exit"
             /\ inflight = {} /\ inflight' = {}
          \/ /\ pc = "exit" /\ pc' = "done"
    /\ Returned # {} =>
          /\ UNCHANGED ResourceState
          /\ UNCHANGED <<pc, activeActions>>
          /\ Cardinality(Returned) = 1
    /\ inflight' # inflight =>
          Cardinality(inflight' \ inflight) + Cardinality(Applied) = 1

----------------------------------------------------------------------------
(* C18 as stated: after Free(x) of a reserved block x the next ReserveNext *)
(* for the family of x returns x and leaves the cursors alone; a freed     *)
(* block is never returned for the other family; with no freed block of    *)
(* the family ReserveNext returns the cursor block and advances that       *)
(* cursor by one subnet.                                                   *)

\* the step is a call of ReserveNext / the cursor of a family
IsReserveNext ==
    call'.op = "ReserveNext" /\ <<call, freeNets>>' # <<call, freeNets>>
Cursor(n, ipv6) == IF ipv6 THEN n.currentV6 ELSE n.currentV4

C18_FamilyAndCursor ==
    IsReserveNext =>
        /\ isIPv6(call'.net) = call'.ipv6
        /\ call'.net \in Reserved(freeNets')
        /\ Cursor(freeNets', ~call'.ipv6) = Cursor(freeNets, ~call'.ipv6)
        /\ IF Freed(freeNets, call'.ipv6) # {}
           THEN /\ call'.net \in Freed(freeNets, call'.ipv6)
                /\ Cursor(freeNets', call'.ipv6) = Cursor(freeNets, call'.ipv6)
           ELSE /\ call'.net = Cursor(freeNets, call'.ipv6)
                /\ Cursor(freeNets', call'.ipv6) =
                      <<call'.net[1], call'.net[2] + 1>>

C18_LastFreedStep ==
    /\ C18_FamilyAndCursor
    /\ (/\ IsReserveNext
        /\ call.op = "Free"
        /\ call.net # NoNet
        /\ call.ipv6 = call'.ipv6) => call'.net = call.net

C18_LastFreedFirst == [][C18_LastFreedStep]_vars

(* C18 amended: while freed blocks of the family exist ReserveNext returns *)
(* one of them, the block just freed if it is the only one, and leaves the *)
(* cursors alone; the rest as stated.                                      *)

C18_FreedStep ==
    /\ C18_FamilyAndCursor
    /\ (/\ IsReserveNext
        /\ call.op = "Free"
        /\ call.net # NoNet
        /\ call.ipv6 = call'.ipv6
        /\ Freed(freeNets, call'.ipv6) = {call.net}) => call'.net = call.net

C18_FreedBlockFirst == [][C18_FreedStep]_vars

\* a freed block was handed out again while a freed block of the other
\* family was waiting, and then the cursor block of the family
C18_Witness ==
    /\ call.op = "ReserveNext"
    /\ ~call.ipv6
    /\ call.net = <<"v4", 3>>
    /\ freeNets.currentV4 = <<"v4", 4>>
    /\ Freed(freeNets, TRUE) # {}
    /\ <<"v4", 1>> \in Reserved(freeNets)

----------------------------------------------------------------------------
(* C19: when Free is only applied to reserved blocks, ReserveNext never    *)
(* returns a block that is reserved: the block it returns joins the        *)
(* reserved blocks, every block handed out so far lies below the cursor of *)
(* its family, so the blocks held at the same time are pairwise distinct.  *)

C19_Step ==
    IsReserveNext =>
        /\ call'.net \notin Reserved(freeNets)
        /\ Reserved(freeNets') = Reserved(freeNets) \cup {call'.net}

C19_BelowCursor ==
    \A k \in DOMAIN freeNets.freeNets :
        /\ k[1] = Cursor(freeNets, isIPv6(k))[1]
        /\ k[2] < Cursor(freeNets, isIPv6(k))[2]

C19_NeverReservedTwice == [](C19_BelowCursor) /\ [][C19_Step]_vars

\* a freed block was handed out again while other blocks of both families
\* are reserved
C19_Witness ==
    /\ call.op = "ReserveNext"
    /\ call.net[2] + 1 < Cursor(freeNets, call.ipv6)[2]
    /\ Cardinality(Reserved(freeNets)) >= 4
    /\ \E k \in Reserved(freeNets) : isIPv6(k)
    /\ \E k \in Reserved(freeNets) : ~isIPv6(k)

----------------------------------------------------------------------------
(* C20: the number of runs of an expansion *)

RECURSIVE SumOf(_, _)
SumOf(f, S) ==
    IF S = {} THEN 0
    ELSE LET x == CHOOSE y \in S : TRUE IN f[x] + SumOf(f, S \ {x})

\* the tests --torun selects
SelectedTests(in) ==
    {n \in DOMAIN in.testSpec.Tests :
        in.toRun \in {toRunAll, toRunEmpty}
            \/ \E i \in DOMAIN in.toRun : in.toRun[i] = n}

\* the variants of the expansion: the default variant when the test
\* specification has none, else those --variant names, all when it names none
SuiteVariants(in) ==
    IF in.testSpec.Variants = <<>> THEN <<defaultVariant>>
    ELSE SelectSeq(in.testSpec.Variants,
                   LAMBDA v : in.variantsToRun = <<>>
                                  \/ \E i \in DOMAIN in.variantsToRun :
                                         in.variantsToRun[i] = v.Name)

\* the test admits the variant
Admits(t, v) == t.Variants = <<>> \/ \E i \in DOMAIN t.Variants : t.Variants[i] = v.Name

TagSet(tags) == {tags[i] : i \in DOMAIN tags}

\* the VM descriptors that carry the tags of the variant and of the test
MatchingImages(in, t, v) ==
    {i \in DOMAIN in.vmSpec.VMs :
        TagSet(v.VMTags) \cup TagSet(t.VMTags) \subseteq TagSet(in.vmSpec.VMs[i].VMTags)}

\* selected test, admitted variant with a matching image, VM count entry
Combinations(in) ==
    {c \in SelectedTests(in) \X (1..2) \X (1..2) :
        /\ c[2] \in DOMAIN SuiteVariants(in)
        /\ c[3] \in DOMAIN in.testSpec.Tests[c[1]].VMCount
        /\ Admits(in.testSpec.Tests[c[1]], SuiteVariants(in)[c[2]])
        /\ MatchingImages(in, in.testSpec.Tests[c[1]], SuiteVariants(in)[c[2]]) # {}}

RunsOfCombination(in, c) ==
    in.repeats *
        (IF in.testSpec.Tests[c[1]].NeedAllPlatforms
         THEN Cardinality(MatchingImages(in, in.testSpec.Tests[c[1]],
                                         SuiteVariants(in)[c[2]]))
         ELSE 1)

ExpectedRuns(in) ==
    SumOf([c \in Combinations(in) |-> RunsOfCombination(in, c)], Combinations(in))

\* a selected test and a variant it admits with no matching image
EmptyCombinations(in) ==
    {c \in SelectedTests(in) \X DOMAIN SuiteVariants(in) :
        /\ Admits(in.testSpec.Tests[c[1]], SuiteVariants(in)[c[2]])
        /\ MatchingImages(in, in.testSpec.Tests[c[1]], SuiteVariants(in)[c[2]]) = {}}

\* C20: an expansion produces as many runs as the sum, over the selected
\* tests, their admitted variants with a matching image and the VM counts of
\* the test, of repeats times the number of matching images (needallplatforms)
\* or times one; a test and variant without a matching image have no run
C20_RunCount ==
    expansion.stage = "done" =>
        /\ ~expansion.out.err
        /\ Len(expansion.out.testRuns) = ExpectedRuns(expansion.in)
        /\ \A c \in EmptyCombinations(expansion.in) :
               \A i \in DOMAIN expansion.out.testRuns :
                   ~ /\ expansion.out.testRuns[i].testName = c[1]
                     /\ expansion.out.testRuns[i].variant =
                            SuiteVariants(expansion.in)[c[2]]

\* an expansion of two tests repeated twice, one of them on all platforms
\* with several matching images, and one combination without any image
C20_Witness ==
    /\ expansion.stage = "done"
    /\ expansion.in.repeats = 2
    /\ Cardinality(SelectedTests(expansion.in)) = 2
    /\ EmptyCombinations(expansion.in) # {}
    /\ \E c \in Combinations(expansion.in) :
           /\ expansion.in.testSpec.Tests[c[1]].NeedAllPlatforms
           /\ RunsOfCombination(expansion.in, c) >= 4
    /\ \E c \in Combinations(expansion.in) :
           /\ ~expansion.in.testSpec.Tests[c[1]].NeedAllPlatforms
           /\ Len(expansion.in.testSpec.Tests[c[1]].VMCount) = 2
    /\ Len(expansion.out.testRuns) = ExpectedRuns(expansion.in)

----------------------------------------------------------------------------
(* C21: the VMs of a run carry the tags of its variant and of its test *)

\* C21: every VM of every produced run has all vm_tags of the run's variant
\* and all vm_tags of the run's test, and a test and variant for which no VM
\* descriptor qualifies end in no run and in no error
C21_TagsMatch ==
    expansion.stage = "done" =>
        /\ \A i \in DOMAIN expansion.out.testRuns :
               LET run == expansion.out.testRuns[i]
                   t   == expansion.in.testSpec.Tests[run.testName]
               IN  \A j \in DOMAIN run.vms :
                       /\ TagSet(run.variant.VMTags) \subseteq TagSet(run.vms[j].VMTags)
                       /\ TagSet(t.VMTags) \subseteq TagSet(run.vms[j].VMTags)
        /\ EmptyCombinations(expansion.in) # {} =>
               /\ ~expansion.out.err
               /\ \A c \in EmptyCombinations(expansion.in) :
                      ~\E i \in DOMAIN expansion.out.testRuns :
                          /\ expansion.out.testRuns[i].testName = c[1]
                          /\ expansion.out.testRuns[i].variant.Name =
                                 SuiteVariants(expansion.in)[c[2]].Name

\* a run of a tagged variant and a tagged test next to a test and variant
\* that no VM descriptor satisfies
C21_Witness ==
    /\ expansion.stage = "done"
    /\ EmptyCombinations(expansion.in) # {}
    /\ \E i \in DOMAIN expansion.out.testRuns :
           LET run == expansion.out.testRuns[i]
           IN  /\ run.variant.VMTags # <<>>
               /\ expansion.in.testSpec.Tests[run.testName].VMTags # <<>>
               /\ Len(run.vms) = 2
               /\ Len(expansion.in.vmSpec.VMs) = 3

----------------------------------------------------------------------------
(* C22: the VMs of the runs of one test, variant and VM count *)

\* the runs of test n under variant v with k VMs
RunsOf(n, v, k) ==
    {i \in DOMAIN expansion.out.testRuns :
        /\ expansion.out.testRuns[i].testName = n
        /\ expansion.out.testRuns[i].variant = v
        /\ Len(expansion.out.testRuns[i].vms) = k}

\* how often the VM count k is listed for the test: each listing is expanded
Listings(t, k) == Cardinality({j \in DOMAIN t.VMCount : t.VMCount[j] = k})

\* C22: per test, admitted variant with matching descriptors, VM count and
\* repeat: under needallplatforms one run per matching descriptor, all of its
\* VMs being that descriptor; else under samevms one run of one descriptor;
\* else one run of VMs from the matching set; a run has exactly vmCount VMs
C22_VMSelection ==
    expansion.stage = "done" =>
        LET in   == expansion.in
            runs == expansion.out.testRuns
        IN  /\ \A i \in DOMAIN runs :
                   \E c \in Combinations(in) :
                       /\ runs[i].testName = c[1]
                       /\ runs[i].variant = SuiteVariants(in)[c[2]]
                       /\ Len(runs[i].vms) = in.testSpec.Tests[c[1]].VMCount[c[3]]
            /\ \A c \in Combinations(in) :
                   LET t  == in.testSpec.Tests[c[1]]
                       v  == SuiteVariants(in)[c[2]]
                       k  == t.VMCount[c[3]]
                       M  == {in.vmSpec.VMs[m] : m \in MatchingImages(in, t, v)}
                       R  == RunsOf(c[1], v, k)
                   IN  IF t.NeedAllPlatforms
                       THEN /\ \A d \in M :
                                   Cardinality({i \in R : runs[i].vms = [x \in 1..k |-> d]})
                                       = in.repeats * Listings(t, k)
                            /\ \A i \in R : \E d \in M : runs[i].vms = [x \in 1..k |-> d]
                       ELSE /\ Cardinality(R) = in.repeats * Listings(t, k)
                            /\ \A i \in R : \A x \in 1..k : runs[i].vms[x] \in M
                            /\ t.SameVMs =>
                                   \A i \in R : \A x, y \in 1..k :
                                       runs[i].vms[x] = runs[i].vms[y]

\* one expansion with a two-VM run of a test that needs all platforms and a
\* two-VM run of a test with neither flag whose draws differ
C22_Witness ==
    /\ expansion.stage = "done"
    /\ expansion.in.repeats = 2
    /\ \E i \in DOMAIN expansion.out.testRuns :
           /\ expansion.in.testSpec.Tests[expansion.out.testRuns[i].testName].NeedAllPlatforms
           /\ Len(expansion.out.testRuns[i].vms) = 2
    /\ \E i \in DOMAIN expansion.out.testRuns :
           LET t == expansion.in.testSpec.Tests[expansion.out.testRuns[i].testName]
           IN  /\ ~t.NeedAllPlatforms
               /\ ~t.SameVMs
               /\ Len(expansion.out.testRuns[i].vms) = 2
               /\ expansion.out.testRuns[i].vms[1] # expansion.out.testRuns[i].vms[2]

----------------------------------------------------------------------------
(* C23: the test IDs of one expansion *)

\* C23: the runs of one expansion have pairwise distinct test IDs, so that
\* a map keyed by test ID has one entry per run
C23_DistinctIDs ==
    expansion.stage = "done" =>
        \A i, j \in DOMAIN expansion.out.testRuns :
            i # j => expansion.out.testRuns[i].testID # expansion.out.testRuns[j].testID

\* the same, for test specifications that list no VM count twice and whose
\* names contain no dash
C23_DistinctIDsOfPlainSpecs ==
    (/\ expansion.stage = "done"
     /\ \A n \in DOMAIN expansion.in.testSpec.Tests :
            /\ Len(n) = 1
            /\ \A x, y \in DOMAIN expansion.in.testSpec.Tests[n].VMCount :
                   x # y => expansion.in.testSpec.Tests[n].VMCount[x]
                                # expansion.in.testSpec.Tests[n].VMCount[y])
        => \A i, j \in DOMAIN expansion.out.testRuns :
               i # j => expansion.out.testRuns[i].testID
                            # expansion.out.testRuns[j].testID

----------------------------------------------------------------------------
(* C24: two expansions with the same seed *)

\* the VMs every test ID of an expansion is planned on
Assignment(testRuns) ==
    {<<testRuns[i].testID, testRuns[i].vms>> : i \in DOMAIN testRuns}

\* C24: two expansions with the same seed, specifications and flags produce
\* the same runs on the same VMs
C24_SeedDeterminism ==
    expansion.stage = "again" =>
        Assignment(expansion.out.testRuns) = Assignment(expansion.out2.testRuns)

\* the same for expansions that range over the tests in the same order
C24_SeedAndOrderDeterminism ==
    (expansion.stage = "again" /\ expansion.order = expansion.order2) =>
        expansion.out = expansion.out2

----------------------------------------------------------------------------
(* C25: the signals handleTermination sends *)

\* the positions of the signals of one sender
SignalsOf(who, sig) ==
    IF proc.pc = "none" THEN {}
    ELSE {i \in DOMAIN proc.signals :
             proc.signals[i].by = who /\ proc.signals[i].sig = sig}

\* the step appends a signal of the watcher
WatcherSends(sig) ==
    /\ proc.pc # "none"
    /\ proc'.signals =
           Append(proc.signals, [sig |-> sig, by |-> "handleTermination"])

\* SIGTERM only under a context that is done and before the watcher has
\* received from complete; SIGKILL only after SIGTERM, when the timer has
\* fired and the watcher has still not received from complete
C25_SignalStep ==
    /\ WatcherSends("SIGTERM") =>
           /\ RunCtxDone
           /\ proc.watcher = "select1"
           /\ SignalsOf("handleTermination", "SIGTERM") = {}
    /\ WatcherSends("SIGKILL") =>
           /\ SignalsOf("handleTermination", "SIGTERM") # {}
           /\ proc.timer
           /\ proc.watcher = "select2"

\* without a done context there is no signal, and cmdRunTerm returns only
\* after the watcher has ended
C25_NoSignal ==
    proc.pc # "none" =>
        /\ (~RunCtxDone => SignalsOf("handleTermination", "SIGTERM")
                               \cup SignalsOf("handleTermination", "SIGKILL") = {})
        /\ (proc.pc \in {"returned", "done"} /\ proc.child # "none")
               => proc.watcher = "finished"

\* C25: cmdRunTerm sends SIGTERM only after its context is done and the
\* watcher has not seen the child complete, SIGKILL only after SIGTERM and
\* the 30 second timer with the child still not seen complete; a child that
\* exits under a live context gets no signal, and the watcher ends
C25_Termination ==
    /\ [][C25_SignalStep]_vars
    /\ []C25_NoSignal
    /\ ((proc.pc # "none" /\ proc.child = "exited")
            ~> (proc.pc # "none" /\ proc.watcher = "finished"))

\* the child outlived SIGTERM and the timer and was sent SIGKILL
C25_Witness ==
    /\ proc.pc = "returned"
    /\ proc.signals = <<[sig |-> "SIGTERM", by |-> "handleTermination"],
                        [sig |-> "SIGKILL", by |-> "handleTermination"]>>
    /\ proc.child = "exited"
    /\ proc.watcher = "finished"

----------------------------------------------------------------------------
(* C26: no forceful kill without SIGTERM and the grace period *)

\* C26: the subprocess of an action of any kind is sent SIGKILL only after
\* it was sent SIGTERM and the 30 seconds after that have passed
C26_GracefulKill ==
    proc.pc # "none" =>
        \A i \in DOMAIN proc.signals :
            proc.signals[i].sig = "SIGKILL" =>
                /\ \E j \in 1..(i - 1) : proc.signals[j].sig = "SIGTERM"
                /\ proc.timer

\* the same for the actions whose command is built with exec.Command
C26_GracefulKillOfPlainCommands ==
    (proc.pc # "none" /\ ~IsCommandContext(proc.kind)) =>
        \A i \in DOMAIN proc.signals :
            proc.signals[i].sig = "SIGKILL" =>
                /\ \E j \in 1..(i - 1) : proc.signals[j].sig = "SIGTERM"
                /\ proc.timer

----------------------------------------------------------------------------
(* C27: the error cmdStderrTerm returns *)

\* an exec that went through cmdStderrTerm and has returned
ReturnedCmdStderrTerm ==
    /\ proc.pc = "done"
    /\ proc.kind # "PerformTest"

WriteErrors == {"mkdirErr", "stderrWriteErr", "jsonErr", "metaWriteErr"}

----------------------------------------------------------------------------
(* C28: the status and the error of a test result *)

Statuses ==
    {StatusError, StatusCanceled, StatusFailedTimeout, StatusFailed,
     StatusSuccess}

\* a PerformTest exec has returned its result
TestReturned == proc.pc = "done" /\ proc.kind = "PerformTest"

\* C28: a test result has exactly one of the five statuses: Error when the
\* VMs did not start, else Canceled when the parent context is cancelled at
\* classification, else FailedTimeout when the deadline of the test has
\* passed, else Failed when the test command returned an error, else
\* Success; its error is nil exactly when the status is Success
C28_StatusAndError ==
    TestReturned =>
        /\ proc.result.status \in Statuses
        /\ proc.result.status =
               IF proc.early = "startVMs" THEN StatusError
               ELSE IF proc.ctx THEN StatusCanceled
               ELSE IF proc.timeout THEN StatusFailedTimeout
               ELSE IF proc.err # NilErr THEN StatusFailed
               ELSE StatusSuccess
        /\ (proc.result.err = NilErr) <=> (proc.result.status = StatusSuccess)

\* the same for tests whose output directory and files can be written
C28_StatusAndErrorWhenWritten ==
    (TestReturned /\ proc.early # "MkdirAll" /\ proc.wrote) =>
        /\ proc.result.status =
               IF proc.early = "startVMs" THEN StatusError
               ELSE IF proc.ctx THEN StatusCanceled
               ELSE IF proc.timeout THEN StatusFailedTimeout
               ELSE IF proc.err # NilErr THEN StatusFailed
               ELSE StatusSuccess
        /\ (proc.result.err = NilErr) <=> (proc.result.status = StatusSuccess)

----------------------------------------------------------------------------
(* C29: tearDown *)

\* the errors a step appended
Appended == SubSeq(errors', Len(errors) + 1, Len(errors'))

\* tearDown keeps the networks when errors are to be inspected, and
\* otherwise issues one removal per network of the state, whatever its
\* stage, and appends one error for each removal that failed
C29_Step ==
    (pc = "exit" /\ pc' # "exit") =>
        /\ pc' = "done"
        /\ IF Len(errors) > 0 /\ suiteRun.onFailure = OnFailureKeepVms
           THEN /\ removed' = EmptyMap
                /\ errors' = errors
           ELSE /\ DOMAIN removed' = DOMAIN networks
                /\ \A n \in DOMAIN networks : removed'[n] = 1
                /\ Len(errors') >= Len(errors)
                /\ SubSeq(errors', 1, Len(errors)) = errors
                /\ \A i \in DOMAIN Appended :
                       /\ Appended[i].kind = "remove network"
                       /\ Appended[i].id \in DOMAIN networks
                       /\ \A j \in DOMAIN Appended :
                              Appended[i] = Appended[j] => i = j

\* C29: on every exit of the scheduler, after the loop, tearDown can run
\* and is the only step that follows: under
\* keep-vms with an error recorded it removes no network, otherwise it
\* issues exactly one removal for every network of the state, whatever its
\* stage, and appends every removal failure to the errors
C29_TearDown ==
    /\ [][C29_Step]_vars
    /\ [](pc # "done" => removed = EmptyMap)
    /\ [](pc = "exit" => ENABLED tearDown)

\* tearDown removed a network whose AddNetwork had failed next to a Ready
\* one, and the failure of one removal was recorded
C29_Witness ==
    /\ pc = "done"
    /\ \E n, m \in DOMAIN networks :
           /\ networks[n].stage = networkError
           /\ networks[m].stage = networkReady
           /\ removed[n] = 1
           /\ removed[m] = 1
           /\ \E i \in DOMAIN errors : errors[i] = Err("remove network", m)
           /\ ~\E i \in DOMAIN errors : errors[i] = Err("remove network", n)

\* the step in which removeImages runs: after runScheduler and tearDown,
\* and with a provision file a removal is attempted for every entry of
\* vmSpec.VMs, whichever removals fail
C30_Step ==
    (~rmImages.called /\ rmImages'.called) =>
        /\ pc = "done"
        /\ activeActions = 0
        /\ suiteRun.vmSpec.ProvisionFile =>
              /\ \A i \in 1..Len(VMs) :
                     \E j \in DOMAIN rmImages'.attempted :
                         rmImages'.attempted[j] = ID(VMs[i])
              /\ rmImages'.failed \subseteq DOMAIN rmImages'.attempted

\* C30: when the scheduler has run with a provision file, the removal of the
\* image of every VM is attempted once the scheduler and tearDown have
\* finished, whatever errors are recorded and also under keep-vms, and a
\* removal that fails does not keep the others from being attempted
C30_RemoveImages ==
    /\ [][C30_Step]_vars
    /\ [](rmImages.called => pc = "done")
    /\ []((pc = "done" /\ ~rmImages.called) => ENABLED removeImages)

\* under keep-vms, with an error recorded and the networks kept, the first
\* removal failed and the image of the second VM was removed all the same
C30_Witness ==
    /\ rmImages.called
    /\ suiteRun.vmSpec.ProvisionFile
    /\ suiteRun.onFailure = OnFailureKeepVms
    /\ Len(errors) > 0
    /\ networks # EmptyMap
    /\ removed = EmptyMap
    /\ Len(VMs) = 2
    /\ rmImages.failed = {1}
    /\ rmImages.attempted = <<ID(VMs[1]), ID(VMs[2])>>

\* performTest has returned
PerformTestDone == proc.pc = "done" /\ proc.kind = "PerformTest"

\* the VMs of the run that were started and that shutdownVMs left in place
VMsLeft == proc.started \ proc.vmRm

\* C31: when performTest ends every VM of the run has been removed, except
\* under keep-vms when the test failed: then none of them is removed
C31_VMsRemoved ==
    PerformTestDone =>
        IF suiteRun.onFailure = OnFailureKeepVms /\ proc.result.status = StatusFailed
        THEN proc.vmRm = {}
        ELSE VMsLeft = {}

\* a failed test under keep-vms has kept its two VMs
C31_Witness ==
    /\ PerformTestDone
    /\ suiteRun.onFailure = OnFailureKeepVms
    /\ proc.result.status = StatusFailed
    /\ Cardinality(proc.started) = 2
    /\ proc.vmRm = {}

\* a test that ran into its timeout under keep-vms has lost its VMs
C31_WitnessTimeout ==
    /\ PerformTestDone
    /\ suiteRun.onFailure = OnFailureKeepVms
    /\ proc.result.status = StatusFailedTimeout
    /\ proc.started # {}
    /\ proc.vmRm = proc.started

\* the New runs that fit into the IDs not held by runs in Exec
FittingRuns ==
    {r \in 1..Len(Runs) :
        /\ runStage[Runs[r].testID] = runNew
        /\ Len(Runs[r].vms) <= countNonTestIDs}

\* those of them with the maximal number of VMs
LargestFittingRuns ==
    {r \in FittingRuns : \A q \in FittingRuns : Len(Runs[q].vms) <= Len(Runs[r].vms)}

\* the Ready networks with the fields of a network spec, of one kind
ReadyNetworks(network, access) ==
    {n \in DOMAIN networks :
        /\ networks[n].stage = networkReady
        /\ networks[n].isAccess = access
        /\ networks[n].network = network}

\* every image of the run is Ready, an access network of its address family
\* is Ready and its extra networks can each take a Ready network of their own
FullyReady(r) ==
    /\ \A k \in 1..Len(Runs[r].vms) :
           /\ baseImage[Runs[r].vms[k].BaseImage] = imageReady
           /\ imageStage[ID(Runs[r].vms[k])] = imageReady
    /\ ReadyNetworks(accessNetwork(Runs[r].variant.IPv6), TRUE) # {}
    /\ \E f \in [1..Len(Runs[r].networks) -> DOMAIN networks] :
           /\ \A k \in DOMAIN f : f[k] \in ReadyNetworks(Runs[r].networks[k], FALSE)
           /\ \A j, k \in DOMAIN f : f[j] = f[k] => j = k

\* the run chooseNextAction works towards
ChosenRun == bestRunFrom(1, NoRun)

\* C32: among the New runs that fit and have the maximal number of VMs,
\* chooseNextAction picks a run whose images and networks are all Ready if
\* there is one, and otherwise the first of them in plan order
C32_TieBreak ==
    IF LargestFittingRuns = {} THEN ChosenRun = NoRun
    ELSE /\ ChosenRun \in LargestFittingRuns
         /\ IF \E r \in LargestFittingRuns : FullyReady(r)
            THEN FullyReady(ChosenRun)
            ELSE ChosenRun = Min(LargestFittingRuns)

\* the loop is about to choose, the first of the largest runs is not ready
\* and a later one is: the later one is chosen
C32_Witness ==
    /\ pc = "dispatch"
    /\ ~runStopping
    /\ Cardinality(LargestFittingRuns) >= 2
    /\ ~FullyReady(Min(LargestFittingRuns))
    /\ ChosenRun # Min(LargestFittingRuns)
    /\ FullyReady(ChosenRun)

\* the loop is about to choose among several largest runs, none of them
\* ready: the first is chosen
C32_WitnessFirst ==
    /\ pc = "dispatch"
    /\ Cardinality(LargestFittingRuns) >= 2
    /\ \A r \in LargestFittingRuns : ~FullyReady(r)
    /\ ChosenRun = Min(LargestFittingRuns)

\* the loop is about to call chooseNextAction
Choosing == pc = "dispatch" /\ ~runStopping /\ ~ctxErr

\* the run chooseNextAction prefers gives no action
PreferredYieldsNone ==
    \/ ChosenRun = NoRun
    \/ nextActionRun(ChosenRun) = Nil

\* the VM descriptors with a base image, or an image of their own, in None
BaseNone == {v \in 1..Len(VMs) : baseImage[VMs[v].BaseImage] = imageNone}
ImageNone == {v \in 1..Len(VMs) : imageStage[ID(VMs[v])] = imageNone}

\* an AddNetwork is in flight
AddInFlight == \E n \in DOMAIN networks : networks[n].stage = networkAdd

\* the VM descriptors something can be done for: the base image can be
\* pulled, or it is Ready and the image of the VM can be provisioned
Actionable ==
    BaseNone \cup {v \in ImageNone : baseImage[VMs[v].BaseImage] = imageReady}

\* C33: when the preferred run yields no action, an ID is free and a VM has
\* an image in None that can be worked on, chooseNextAction returns an action
\* whatever the state of the VMs listed before it: a PullImage of a base
\* image in None, a ProvisionImage of an image in None or the AddNetwork
\* of the access network for it; it returns no action only behind an
\* AddNetwork that is in flight
C33_ProvisionProgress ==
    (Choosing /\ PreferredYieldsNone /\ freeIDs # {} /\ Actionable # {}) =>
        /\ chooseNextAction = Nil => AddInFlight
        /\ chooseNextAction.kind = "PullImage" =>
               \E v \in BaseNone : chooseNextAction.Image = VMs[v].BaseImage
        /\ chooseNextAction.kind = "ProvisionImage" =>
               chooseNextAction.v \in ImageNone
        /\ chooseNextAction.kind = "AddNetwork" => chooseNextAction.access

\* what the code does: only the first VM with an image in None is looked
\* at, and no action is returned while its base image is being pulled
C33_FirstVMOnly ==
    (Choosing /\ PreferredYieldsNone /\ freeIDs # {} /\ Actionable # {}) =>
        /\ chooseNextAction = Nil =>
               \/ AddInFlight
               \/ baseImage[VMs[firstUnprovisioned].BaseImage] = imageProvision
        /\ chooseNextAction.kind = "PullImage" =>
               chooseNextAction.Image = VMs[firstUnprovisioned].BaseImage
        /\ chooseNextAction.kind = "ProvisionImage" =>
               chooseNextAction.v = firstUnprovisioned

\* a block that is reserved stays in the allocator's map, marked as taken
C34_StaysReserved ==
    pc # "exit" =>
        \A k \in Reserved(freeNets) : k \in Reserved(freeNets')

\* tearDown has removed every network of the state, none of the removals
\* failed
AllNetworksRemoved ==
    /\ pc = "done"
    /\ networks # EmptyMap
    /\ DOMAIN removed = DOMAIN networks
    /\ \A i \in DOMAIN errors : errors[i].kind # "remove network"

\* C34: the blocks AddNetwork.pre reserves for a network with DHCP stay
\* reserved while the network exists, also when AddNetwork failed, and are
\* marked free in the subnet allocator when tearDown removes the network
C34_SubnetLifetime ==
    /\ [][C34_StaysReserved]_vars
    /\ [](AllNetworksRemoved => Reserved(freeNets) = {})

\* what the code does: a block that was reserved stays reserved for good,
\* tearDown included
C34_NeverFreed == [][\A k \in Reserved(freeNets) : k \in Reserved(freeNets')]_vars

\* the moves of a run and of an image
RunMoves == {<<runNew, runExec>>, <<runExec, runDone>>}
ImageMoves ==
    {<<imageNone, imageProvision>>, <<imageProvision, imageReady>>,
     <<imageProvision, imageError>>}

\* every change of a stage is a move forward, and an action is only started
\* for a run that is New or an image that is None
C35_Step ==
    /\ DOMAIN runStage' = DOMAIN runStage
    /\ DOMAIN baseImage' = DOMAIN baseImage
    /\ DOMAIN imageStage' = DOMAIN imageStage
    /\ \A t \in DOMAIN runStage :
           runStage'[t] # runStage[t] => <<runStage[t], runStage'[t]>> \in RunMoves
    /\ \A b \in DOMAIN baseImage :
           baseImage'[b] # baseImage[b] => <<baseImage[b], baseImage'[b]>> \in ImageMoves
    /\ \A v \in DOMAIN imageStage :
           imageStage'[v] # imageStage[v] => <<imageStage[v], imageStage'[v]>> \in ImageMoves
    /\ \A a \in Started :
           /\ a.kind = "PerformTest" => runStage[Runs[a.run].testID] = runNew
           /\ a.kind = "PullImage" => baseImage[a.Image] = imageNone
           /\ a.kind = "ProvisionImage" => imageStage[ID(VMs[a.v])] = imageNone

\* C35: stages only move forward and nothing is retried: a run goes
\* New -> Exec -> Done and is executed at most once, an image goes
\* None -> Provision -> Ready or Error and is not pulled or provisioned again
C35_ForwardOnly == [][C35_Step]_vars

\* the scheduler has ended with a run Done, an image in Error and the other
\* images Ready: none of them was started again
C35_Witness ==
    /\ pc = "done"
    /\ \E t \in DOMAIN runStage : runStage[t] = runDone
    /\ \E b \in DOMAIN baseImage : baseImage[b] = imageError
    /\ \E v \in DOMAIN imageStage : imageStage[v] = imageReady
    /\ suiteRun.onFailure = OnFailureContinue

\* the errors recorded are kept, in their order
ErrorsKept ==
    /\ Len(errors') >= Len(errors)
    /\ SubSeq(errors', 1, Len(errors)) = errors

\* a network or an image in stage Error stays there
ErrorStagesKept ==
    /\ \A n \in DOMAIN networks :
           networks[n].stage = networkError =>
               n \in DOMAIN networks' /\ networks'[n].stage = networkError
    /\ \A b \in DOMAIN baseImage :
           baseImage[b] = imageError => baseImage'[b] = imageError
    /\ \A v \in DOMAIN imageStage :
           imageStage[v] = imageError => imageStage'[v] = imageError

\* C36: once runStopping is true it stays true until the loop exits: the
\* errors recorded are never removed, and no later post moves a network or
\* an image out of stage Error, also not a post that returns networks to Ready
C36_StopIsStable ==
    [][/\ ErrorsKept
       /\ ErrorStagesKept
       /\ (InLoop /\ runStopping) => runStopping']_vars

\* under the policy continue a network is in Error and the post of a test
\* was applied after that, returning its own networks to Ready
C36_Witness ==
    /\ InLoop
    /\ runStopping
    /\ suiteRun.onFailure = OnFailureContinue
    /\ \E i, j \in DOMAIN errors :
           /\ i < j
           /\ errors[i].kind = "add network"
           /\ errors[j].kind = "test"
           /\ networks[errors[i].id].stage = networkError
    /\ \E n \in DOMAIN networks : networks[n].stage = networkReady

\* the actions in flight: their pre is applied, their post is not
ActionsInFlight == {g.act : g \in inflight}

\* what the post of an action leaves behind
PostApplied(a) ==
    CASE a.kind = "PerformTest" ->
            /\ runStage'[Runs[a.run].testID] = runDone
            /\ SeqRange(a.ids) \subseteq freeIDs'
       [] a.kind = "PullImage" ->
            baseImage'[a.Image] \in {imageReady, imageError}
       [] a.kind = "ProvisionImage" ->
            /\ imageStage'[ID(VMs[a.v])] \in {imageReady, imageError}
            /\ a.id \in freeIDs'
       [] a.kind = "AddNetwork" ->
            networks'[a.networkName].stage \in {networkReady, networkError}

\* an action enters the set of actions in flight with its pre, one per step
\* and inside the loop, and leaves it with its post, one per step, not to
\* come back
C37_Step ==
    /\ ActionsInFlight' \ ActionsInFlight # {} =>
          /\ pc = "dispatch"
          /\ Cardinality(ActionsInFlight' \ ActionsInFlight) = 1
          /\ ActionsInFlight \subseteq ActionsInFlight'
          /\ activeActions' = activeActions + 1
    /\ ActionsInFlight \ ActionsInFlight' # {} =>
          /\ pc = "wait"
          /\ Cardinality(ActionsInFlight \ ActionsInFlight') = 1
          /\ ActionsInFlight' \subseteq ActionsInFlight
          /\ activeActions' = activeActions - 1
          /\ \A a \in ActionsInFlight \ ActionsInFlight' : PostApplied(a)

\* nothing is in flight and every resource is back
Quiescent ==
    /\ inflight = {}
    /\ activeActions = 0
    /\ freeIDs = AllIDs
    /\ \A t \in DOMAIN runStage : runStage[t] # runExec
    /\ \A b \in DOMAIN baseImage : baseImage[b] # imageProvision
    /\ \A v \in DOMAIN imageStage : imageStage[v] # imageProvision
    /\ \A n \in DOMAIN networks : networks[n].stage \notin {networkAdd, networkBusy}

\* C37: every action whose pre was applied has its post applied, once,
\* before the loop exits: when the loop has exited and tearDown starts, all
\* nrVMs IDs are free, no run is in Exec, no image is in Provision and no
\* network is in Add or Busy
C37_PostBeforeExit ==
    /\ [][C37_Step]_vars
    /\ [](Cardinality(ActionsInFlight) = activeActions)
    /\ [](~InLoop => Quiescent)

\* the loop has exited after a cancellation, with a provisioned image, a
\* network and a result: tearDown is about to start
C37_Witness ==
    /\ pc = "exit"
    /\ ctxErr
    /\ suiteRun.vmSpec.ProvisionFile
    /\ \E v \in DOMAIN imageStage : imageStage[v] = imageReady
    /\ \E n \in DOMAIN networks : networks[n].stage = networkReady
    /\ runResults # EmptyMap
    /\ Quiescent

\* the AddNetwork actions started by a step use a name that is new, and the
\* records of the networks that exist are kept under their names
C38_Step ==
    /\ \A a \in Started :
           a.kind = "AddNetwork" =>
               /\ a.networkName \notin DOMAIN networks
               /\ a.networkName \in DOMAIN networks'
               /\ Cardinality(DOMAIN networks') = Cardinality(DOMAIN networks) + 1
    /\ \A n \in DOMAIN networks :
           /\ n \in DOMAIN networks'
           /\ networks'[n].network = networks[n].network
           /\ networks'[n].isAccess = networks[n].isAccess

\* the indices findReadyNetwork scans
ScannedIndices == 0..(Cardinality(DOMAIN networks) - 1)

\* every network of the state has the name of one scanned index and of its
\* own kind, and no index is used by two networks
C38_Scanned ==
    /\ \A n \in DOMAIN networks :
           \E i \in ScannedIndices : n = generateNetworkName(i, networks[n].isAccess)
    /\ \A i \in ScannedIndices :
           Cardinality({generateNetworkName(i, TRUE), generateNetworkName(i, FALSE)}
                           \cap DOMAIN networks) = 1

\* C38: every AddNetwork uses a name that is not in the state yet, so its pre
\* never overwrites the record of a network, and the scan of findReadyNetwork
\* over the indices 0..len(networks)-1 reaches every network of the kind asked for
C38_FreshNames == [][C38_Step]_vars /\ [](C38_Scanned)

\* access and extra networks exist side by side, one of them added while
\* another network was Busy
C38_Witness ==
    /\ Cardinality(DOMAIN networks) >= 3
    /\ \E n, m \in DOMAIN networks :
           /\ networks[n].isAccess
           /\ ~networks[m].isAccess
           /\ networks[n].stage = networkBusy
    /\ \E n \in DOMAIN networks : networks[n].stage = networkAdd

\* cmdRunTerm has returned
CmdRunTermReturned == proc.pc \in {"returned", "done"}

\* once cmdRunTerm has returned no signal is sent any more
C39_Step ==
    CmdRunTermReturned =>
        /\ proc'.pc \in {"returned", "done"}
        /\ proc'.signals = proc.signals

\* when cmdRunTerm has returned the watcher has finished, if it was started
C39_WatcherFinished ==
    CmdRunTermReturned =>
        /\ proc.watcher \in {"none", "finished"}
        /\ proc.watcher = "none" <=> proc.child = "none"

\* C39: cmdRunTerm returns only after its termination watcher has finished,
\* so no signal is sent to the child after cmdRunTerm has returned, also when
\* the context is cancelled or its deadline passes right after the child exited
C39_NoSignalAfterReturn == [][C39_Step]_vars /\ [](C39_WatcherFinished)

\* cmdRunTerm has returned for a child that exited by itself, the context
\* is cancelled and no signal was sent
C39_Witness ==
    /\ proc.pc = "returned"
    /\ proc.child = "exited"
    /\ proc.watcher = "finished"
    /\ proc.ctx
    /\ proc.signals = <<>>

====
